---- MODULE Spec2Model ----
(***************************************************************************)
(* Telemetry ingestion of the APN backend: the broker client's message     *)
(* classification (services/mqtt.js), the router handleTelemetry and the   *)
(* ingestion handlers of server.js, over the devices, alerts and           *)
(* sensor_readings tables.  Every await of the source is one step of a     *)
(* task; between two steps of a task the steps of other tasks may run.     *)
(***************************************************************************)
EXTENDS Integers, Sequences, FiniteSets, TLC

VARIABLES
    devices,          \* devices table: device_id -> row (or no row)
    alerts,           \* alerts table, in insertion order
    sensor_readings,  \* sensor_readings table, in insertion order
    tasks,            \* one record per telemetry event emitted so far
    sent,             \* the calls websocketService.sendToUser(userId, envelope)
    faults,           \* storage operations that have failed so far
    env,              \* what the devices of this run send, and how many at once
    conns,            \* live connections: socket state and the fields set on ws
    clients,          \* WebSocketService.clients: user id -> set of connections
    calls,            \* the sendToUser calls made on the WebSocketService
    commands,         \* the device_command events the WebSocketService emitted
    wss,              \* the WebSocketServer: heartbeat ticks, frames, closed
    mqtt,             \* MQTTService and its client: isConnected, link, subscription
    emitted,          \* what MQTTService emitted and handed to its client
    commandTasks,     \* one record per run of the device_command listener
    notifications,    \* the calls of sendPushNotificationToUser
    requests,         \* one record per HTTP request received by the routes
    push_tokens,      \* push_tokens table, in insertion order
    sockets,          \* sockets table, in insertion order
    archived_alerts   \* archived_alerts table, in insertion order

\* the state of the WebSocketService and of the MQTTService
wsVars == <<conns, clients, calls, commands, wss>>
mqVars == <<mqtt, emitted>>

\* the state of the command listener, of the routes and of the tables they use
routeVars == <<requests, push_tokens, sockets, archived_alerts>>
apiVars == <<commandTasks, notifications, routeVars>>

vars == <<devices, alerts, sensor_readings, tasks, sent, faults, env, wsVars, mqVars, apiVars>>

----------------------------------------------------------------------------
(* Bounds of the model. *)

\* telemetry events per behaviour when handlers interleave
MaxMsgs == 2
\* telemetry events per behaviour when they are handled one after another
MaxSeqMsgs == 3
\* handlers in flight at once when handlers interleave
MaxInFlight == 2
\* storage operations that fail (error result or exception) per behaviour
MaxFaults == 1

----------------------------------------------------------------------------
(* Values.  A decoded payload is a record holding the fields the device    *)
(* sent: a field is undefined when it is not in the record's domain.  A    *)
(* column of a stored row is Null or Some(value).                          *)

Null == << >>
Some(v) == <<v>>

Has(payload, field) == field \in DOMAIN payload

\* JS truthiness of a string field: undefined and "" are falsy
Truthy(payload, field) == Has(payload, field) /\ payload[field] # ""

\* payload[field] !== undefined ? payload[field] : null
Column(payload, field) == IF Has(payload, field) THEN Some(payload[field]) ELSE Null

\* payload[field] || null
OrNull(payload, field) == IF Truthy(payload, field) THEN Some(payload[field]) ELSE Null

----------------------------------------------------------------------------
(* MQTTService._determineMessageType *)

determineMessageType(payload) ==
    IF Truthy(payload, "alert") THEN "alert"
    ELSE IF Has(payload, "status") /\ payload.status = "ALERT_CLEARED"
         THEN "alert_cleared"
    ELSE IF Truthy(payload, "power") THEN "power_status"
    ELSE IF \/ Has(payload, "water")
            \/ Has(payload, "gas")
            \/ Has(payload, "temperature")
            \/ Has(payload, "gyro")
         THEN "sensor_reading"
    ELSE IF Truthy(payload, "medicine_name") \/ Truthy(payload, "schedule_id")
         THEN "medication"
    ELSE "unknown"

----------------------------------------------------------------------------
(* The row handleSensorReading builds. *)

\* the threshold of the water zones
waterThreshold == 500

\* payload.water?.[i] || 0   (i counted from 0 in the source, from 1 here)
WaterAt(payload, i) ==
    IF Has(payload, "water") /\ i <= Len(payload.water)
    THEN payload.water[i]
    ELSE 0

ZoneDetectedInclusive(a, b) == (a >= waterThreshold) \/ (b >= waterThreshold)

\* (zoneNWaterA > waterThreshold) || (zoneNWaterB > waterThreshold)
ZoneDetected(a, b) == (a > waterThreshold) \/ (b > waterThreshold)

zone1Detected(payload) == ZoneDetected(WaterAt(payload, 1), WaterAt(payload, 2))
zone2Detected(payload) == ZoneDetected(WaterAt(payload, 3), WaterAt(payload, 4))

\* payload.gyro?.movement !== undefined ? payload.gyro.movement
\*                                       : (payload.movement || null)
movementValue(payload) ==
    IF Has(payload, "gyro") /\ Has(payload.gyro, "movement")
    THEN Some(payload.gyro.movement)
    ELSE IF Has(payload, "movement") /\ payload.movement # 0
         THEN Some(payload.movement) ELSE Null

\* payload.temperature?.temp1 !== undefined ? payload.temperature.temp1
\*     : (payload.temp_1 !== undefined ? payload.temp_1 : null)
temp1(payload) ==
    IF Has(payload, "temperature") /\ Has(payload.temperature, "temp1")
    THEN Some(payload.temperature.temp1)
    ELSE Column(payload, "temp_1")

temp2(payload) ==
    IF Has(payload, "temperature") /\ Has(payload.temperature, "temp2")
    THEN Some(payload.temperature.temp2)
    ELSE Column(payload, "temp_2")

sensorReading(deviceId, userId, payload, receivedAt) ==
    [device_id |-> deviceId, user_id |-> userId,
     water_1 |-> Some(IF zone1Detected(payload) THEN 1 ELSE 0),
     water_2 |-> Some(IF zone1Detected(payload) THEN 1 ELSE 0),
     water_3 |-> Some(IF zone2Detected(payload) THEN 1 ELSE 0),
     water_4 |-> Some(IF zone2Detected(payload) THEN 1 ELSE 0),
     gas_detected |-> Column(payload, "gas"),
     temp_1 |-> temp1(payload),
     temp_2 |-> temp2(payload),
     movement |-> movementValue(payload),
     power_status |-> OrNull(payload, "power"),
     received_at |-> receivedAt]

----------------------------------------------------------------------------
(* The payloads the devices send. *)

\* sensor readings: zone 1 wet, both zones wet
pZone1 == [water |-> <<501, 0, 0, 0>>]
pBothZones == [water |-> <<0, 501, 501, 0>>, gas |-> FALSE]
\* alerts
pGasAlert == [alert |-> "GAS_LEAK_DETECTED"]
pWaterAlert == [alert |-> "WATER_DETECTED", sensor |-> "ZONE1"]
\* alert-cleared messages: every alert; one type and zone, named by alertType;
\* the same, named by alert
pClearAll == [status |-> "ALERT_CLEARED"]
pClearZone1 == [status |-> "ALERT_CLEARED", alertType |-> "WATER_DETECTED",
                sensor |-> "ZONE1"]
pClearByAlert == [status |-> "ALERT_CLEARED", alert |-> "WATER_DETECTED",
                  sensor |-> "ZONE1"]
pPower == [power |-> "MAIN"]
\* the message of test-mqtt.js
pUnknown == [messageType |-> "test"]

Catalog == {pZone1, pGasAlert, pWaterAlert, pClearZone1, pClearByAlert,
            pPower, pUnknown}

SeqCatalog == {pZone1, pBothZones, pClearZone1, pClearAll, pWaterAlert,
               pGasAlert, pPower}

\* raw magnitudes around the threshold
Magnitudes == {0, 500, 501}

\* water arrays: four magnitudes, or fewer (the missing entries are undefined)
WaterArrays ==
    {<< >>} \cup {<<a>> : a \in Magnitudes}
            \cup {<<a, b, c>> : a \in {0}, b \in Magnitudes, c \in Magnitudes}
            \cup {<<a, b, c, d>> : a \in Magnitudes, b \in Magnitudes,
                                   c \in Magnitudes, d \in Magnitudes}

\* readings with every water array, and one without the water field
ZonePayloads == {[water |-> w] : w \in WaterArrays} \cup {[gas |-> TRUE]}

\* every combination of the fields the classification reads
NoField == [timestamp |-> 0]
ClassifyPayloads ==
    {a @@ s @@ p @@ w @@ g @@ t @@ y @@ m :
        a \in {NoField, [alert |-> ""], [alert |-> "GAS_LEAK_DETECTED"]},
        s \in {NoField, [status |-> "ALERT_CLEARED"], [status |-> "OK"]},
        p \in {NoField, [power |-> "MAIN"]},
        w \in {NoField, [water |-> <<0, 0, 501, 0>>]},
        g \in {NoField, [gas |-> FALSE]},
        t \in {NoField, [temperature |-> [temp1 |-> 20]]},
        y \in {NoField, [gyro |-> [movement |-> 0]]},
        m \in {NoField, [medicine_name |-> "pill"]}}

ProbePayloads == ZonePayloads \cup ClassifyPayloads

\* what the devices of the run send
Payloads ==
    CASE env.run = "interleaved" -> Catalog
      [] env.run = "sequential"  -> SeqCatalog
      [] OTHER                   -> {env.probe}

DeviceIds == {"d1", "d2", "d3", "d4"}

Senders ==
    CASE env.run = "interleaved" -> DeviceIds
      [] env.run = "sequential"  -> {"d1", "d2"}
      [] OTHER                   -> {"d1"}

\* how many handlers may be in flight, and how many events arrive
InFlightLimit == IF env.run = "interleaved" THEN MaxInFlight ELSE 1

MsgLimit ==
    CASE env.run = "interleaved" -> MaxMsgs
      [] env.run = "sequential"  -> MaxSeqMsgs
      [] OTHER                   -> 1

----------------------------------------------------------------------------
(* The tables. *)

\* d1 and d2 are paired and active, d3 is paired but inactive, d4 has no row
InitialDevices ==
    [d \in DeviceIds |->
        CASE d = "d1" -> Some([id |-> 101, user_id |-> "u1", is_active |-> TRUE,
                               name |-> "Pump", paired_at |-> 0])
          [] d = "d2" -> Some([id |-> 102, user_id |-> "u2", is_active |-> TRUE,
                               name |-> "Tank", paired_at |-> 0])
          [] d = "d3" -> Some([id |-> 103, user_id |-> "u1", is_active |-> FALSE,
                               name |-> "Pump", paired_at |-> 0])
          [] OTHER    -> Null]

\* how a storage operation ends: a result, an { error } result, an exception
Outcomes == IF faults < MaxFaults THEN {"ok", "error", "throw"} ELSE {"ok"}

Charge(outcome) == faults' = IF outcome = "ok" THEN faults ELSE faults + 1

\* .maybeSingle(): the row, null for no row, an error for several rows
maybeSingle(rows) ==
    IF Cardinality(rows) > 1 THEN [error |-> TRUE, data |-> {}]
    ELSE [error |-> FALSE, data |-> rows]

InFlight == {i \in DOMAIN tasks : tasks[i].pc # "done"}

HandlerReturnedUncaught(outcome) == IF outcome = "throw" THEN "done" ELSE "forward"

\* where a task continues when its ingestion handler has returned, whatever
\* the outcome of its last storage operation (every handler catches): the
\* router resumes after `await handleX(...)` and forwards
HandlerReturned(outcome) == "forward"

\* the zones loop of handleSensorReading: the next detected zone after z, 0 if none
NextZone(payload, z) ==
    IF z < 1 /\ zone1Detected(payload) THEN 1
    ELSE IF z < 2 /\ zone2Detected(payload) THEN 2
    ELSE 0

AfterZone(payload, z) ==
    IF NextZone(payload, z) = 0 THEN HandlerReturned("ok") ELSE "zone_check"

ZoneLabel(z) == IF z = 1 THEN "ZONE1" ELSE "ZONE2"

ExistingWaterAlertsAnyState(deviceId, userId, z) ==
    {k \in DOMAIN alerts :
        /\ alerts[k].device_id = deviceId
        /\ alerts[k].user_id = userId
        /\ alerts[k].alert_type = "WATER_DETECTED"
        /\ alerts[k].sensor = Some(ZoneLabel(z))}

\* the rows the existence check of handleSensorReading selects
ExistingWaterAlerts(deviceId, userId, z) ==
    {k \in DOMAIN alerts :
        /\ alerts[k].device_id = deviceId
        /\ alerts[k].user_id = userId
        /\ alerts[k].alert_type = "WATER_DETECTED"
        /\ alerts[k].sensor = Some(ZoneLabel(z))
        /\ alerts[k].is_active}

\* payload.sensor || null
SensorOf(payload) == OrNull(payload, "sensor")

\* payload.alert || payload.alertType
ClearedType(payload) ==
    IF Truthy(payload, "alert") THEN Some(payload.alert)
    ELSE OrNull(payload, "alertType")

ClearedRowsAnyState(deviceId, userId, payload) ==
    {k \in DOMAIN alerts :
        /\ alerts[k].device_id = deviceId
        /\ alerts[k].user_id = userId
        /\ ClearedType(payload) # Null
              => Some(alerts[k].alert_type) = ClearedType(payload)
        /\ SensorOf(payload) # Null => alerts[k].sensor = SensorOf(payload)}

\* the rows the update of handleAlertCleared changes
ClearedRows(deviceId, userId, payload) ==
    {k \in DOMAIN alerts :
        /\ alerts[k].device_id = deviceId
        /\ alerts[k].user_id = userId
        /\ alerts[k].is_active
        /\ ClearedType(payload) # Null
              => Some(alerts[k].alert_type) = ClearedType(payload)
        /\ SensorOf(payload) # Null => alerts[k].sensor = SensorOf(payload)}

----------------------------------------------------------------------------
(* The broker client emits a telemetry event; handleTelemetry starts and   *)
(* suspends at its first await, the device lookup.                         *)

handleMessage(deviceId, payload) ==
    /\ deviceId \in Senders
    /\ payload \in Payloads
    /\ Len(tasks) < MsgLimit
    /\ Cardinality(InFlight) < InFlightLimit
    /\ tasks' = Append(tasks,
           [deviceId |-> deviceId,
            messageType |-> determineMessageType(payload),
            payload |-> payload,
            receivedAt |-> Len(tasks) + 1,
            pc |-> "lookup", userId |-> "", zone |-> 0,
            failed |-> FALSE, escaped |-> FALSE])
    /\ UNCHANGED <<devices, alerts, sensor_readings, sent, faults, env, wsVars, mqVars, apiVars>>

DeviceAcceptedInactive(outcome, row) == outcome = "ok" /\ row # Null

\* if (deviceError || !device) return;  if (!device.is_active) return;
DeviceAccepted(outcome, row) ==
    outcome = "ok" /\ row # Null /\ row[1].is_active

\* switch (messageType): the first await of the handler that is called
Dispatch(messageType) ==
    CASE messageType = "alert"          -> "alert_insert"
      [] messageType = "alert_cleared"  -> "clear_update"
      [] messageType = "sensor_reading" -> "reading_insert"
      [] messageType = "power_status"   -> "power_insert"
      [] OTHER                          -> "forward"

\* an exception inside handleTelemetry's try block ends in its catch: it is
\* logged and does not leave the function
RouterCatch(t) == [t EXCEPT !.pc = "done", !.failed = TRUE]

\* the task once one of its storage operations has ended with `outcome`
Logged(t, outcome) == [t EXCEPT !.failed = t.failed \/ outcome # "ok"]

handleTelemetry(i, outcome) ==
    /\ tasks[i].pc = "lookup"
    /\ Charge(outcome)
    /\ LET t == tasks[i]
           row == devices[t.deviceId]
       IN tasks' = [tasks EXCEPT ![i] =
              IF outcome = "throw" THEN RouterCatch(t)
              ELSE IF DeviceAccepted(outcome, row)
                   THEN [t EXCEPT !.userId = row[1].user_id,
                                  !.pc = Dispatch(t.messageType)]
                   ELSE [Logged(t, outcome) EXCEPT !.pc = "done"]]
    /\ UNCHANGED <<devices, alerts, sensor_readings, sent, env, wsVars, mqVars, apiVars>>

\* the envelope handed to sendToUser
Envelope(t) ==
    [deviceId |-> t.deviceId, messageType |-> t.messageType,
     payload |-> t.payload, receivedAt |-> t.receivedAt]

\* websocketService.sendToUser(userId, {...}) after the handler returned
Forward(i) ==
    /\ tasks[i].pc = "forward"
    /\ sent' = Append(sent, [userId |-> tasks[i].userId, data |-> Envelope(tasks[i])])
    /\ tasks' = [tasks EXCEPT ![i].pc = "done"]
    /\ UNCHANGED <<devices, alerts, sensor_readings, faults, env, wsVars, mqVars, apiVars>>

----------------------------------------------------------------------------
(* handleAlert *)

alertRow(t) ==
    [device_id |-> t.deviceId, user_id |-> t.userId,
     alert_type |-> t.payload.alert, sensor |-> SensorOf(t.payload),
     value |-> Column(t.payload, "value"), is_active |-> TRUE, cleared_at |-> Null,
     received_at |-> t.receivedAt, origin |-> "handleAlert"]

NeedsGasReadingAlways(alertType) == TRUE

\* if (alertType === 'GAS_LEAK_DETECTED')
NeedsGasReading(alertType) == alertType = "GAS_LEAK_DETECTED"

gasSensorReading(t) ==
    [device_id |-> t.deviceId, user_id |-> t.userId,
     water_1 |-> Null, water_2 |-> Null, water_3 |-> Null, water_4 |-> Null,
     gas_detected |-> Some(TRUE), temp_1 |-> Null, temp_2 |-> Null,
     movement |-> Null, power_status |-> Null, received_at |-> t.receivedAt]

handleAlert(i, outcome) ==
    /\ tasks[i].pc = "alert_insert"
    /\ Charge(outcome)
    /\ LET t == tasks[i] IN
       IF outcome = "ok"
       THEN /\ alerts' = Append(alerts, alertRow(t))
            /\ tasks' = [tasks EXCEPT ![i].pc =
                   IF NeedsGasReading(t.payload.alert)
                   THEN "gas_insert" ELSE HandlerReturned(outcome)]
       ELSE /\ alerts' = alerts
            /\ tasks' = [tasks EXCEPT ![i] =
                   [Logged(t, outcome) EXCEPT !.pc = HandlerReturned(outcome)]]
    /\ UNCHANGED <<devices, sensor_readings, sent, env, wsVars, mqVars, apiVars>>

handleAlertGas(i, outcome) ==
    /\ tasks[i].pc = "gas_insert"
    /\ Charge(outcome)
    /\ sensor_readings' =
          IF outcome = "ok" THEN Append(sensor_readings, gasSensorReading(tasks[i]))
          ELSE sensor_readings
    /\ tasks' = [tasks EXCEPT ![i] =
          [Logged(tasks[i], outcome) EXCEPT !.pc = HandlerReturned(outcome)]]
    /\ UNCHANGED <<devices, alerts, sent, env, wsVars, mqVars, apiVars>>

----------------------------------------------------------------------------
(* handleAlertCleared *)

handleAlertCleared(i, outcome) ==
    /\ tasks[i].pc = "clear_update"
    /\ Charge(outcome)
    /\ LET t == tasks[i]
           rows == ClearedRows(t.deviceId, t.userId, t.payload)
       IN alerts' =
            IF outcome = "ok"
            THEN [k \in DOMAIN alerts |->
                    IF k \in rows
                    THEN [alerts[k] EXCEPT !.is_active = FALSE,
                                           !.cleared_at = Some(t.receivedAt)]
                    ELSE alerts[k]]
            ELSE alerts
    /\ tasks' = [tasks EXCEPT ![i] =
          [Logged(tasks[i], outcome) EXCEPT !.pc = HandlerReturned(outcome)]]
    /\ UNCHANGED <<devices, sensor_readings, sent, env, wsVars, mqVars, apiVars>>

----------------------------------------------------------------------------
(* handleSensorReading *)

InsertedUnchecked(outcome) == outcome # "throw"

\* the insert of the SensorReading row neither threw nor returned an error:
\* `if (error) return` is not taken
Inserted(outcome) == outcome = "ok"

handleSensorReading(i, outcome) ==
    /\ tasks[i].pc = "reading_insert"
    /\ Charge(outcome)
    /\ LET t == tasks[i] IN
       IF Inserted(outcome)
       THEN /\ sensor_readings' =
                   IF outcome = "ok"
                   THEN Append(sensor_readings,
                               sensorReading(t.deviceId, t.userId, t.payload, t.receivedAt))
                   ELSE sensor_readings
            /\ tasks' = [tasks EXCEPT ![i].pc = AfterZone(t.payload, 0),
                                      ![i].zone = NextZone(t.payload, 0)]
       ELSE /\ sensor_readings' = sensor_readings
            /\ tasks' = [tasks EXCEPT ![i] =
                   [Logged(t, outcome) EXCEPT !.pc = HandlerReturned(outcome)]]
    /\ UNCHANGED <<devices, alerts, sent, env, wsVars, mqVars, apiVars>>

MustCreateUnchecked(found) == ~found.error

\* if (!existingAlert) after the checkError test
MustCreate(found) == ~found.error /\ found.data = {}

zoneCheck(i, outcome) ==
    /\ tasks[i].pc = "zone_check"
    /\ Charge(outcome)
    /\ LET t == tasks[i]
           found == IF outcome = "ok"
                    THEN maybeSingle(ExistingWaterAlerts(t.deviceId, t.userId, t.zone))
                    ELSE [error |-> TRUE, data |-> {}]
       IN tasks' = [tasks EXCEPT ![i] =
              IF outcome = "throw"
              THEN [Logged(t, outcome) EXCEPT !.pc = HandlerReturned(outcome)]
              ELSE IF MustCreate(found) THEN [t EXCEPT !.pc = "zone_insert"]
              ELSE [t EXCEPT !.pc = AfterZone(t.payload, t.zone),
                             !.zone = NextZone(t.payload, t.zone),
                             !.failed = t.failed \/ found.error]]
    /\ UNCHANGED <<devices, alerts, sensor_readings, sent, env, wsVars, mqVars, apiVars>>

waterAlertRow(t) ==
    [device_id |-> t.deviceId, user_id |-> t.userId,
     alert_type |-> "WATER_DETECTED", sensor |-> Some(ZoneLabel(t.zone)),
     value |-> Some(1), is_active |-> TRUE, cleared_at |-> Null,
     received_at |-> t.receivedAt, origin |-> "handleSensorReading"]

zoneInsert(i, outcome) ==
    /\ tasks[i].pc = "zone_insert"
    /\ Charge(outcome)
    /\ LET t == tasks[i] IN
       /\ alerts' = IF outcome = "ok" THEN Append(alerts, waterAlertRow(t)) ELSE alerts
       /\ tasks' = [tasks EXCEPT ![i] =
              IF outcome = "throw"
              THEN [Logged(t, outcome) EXCEPT !.pc = HandlerReturned(outcome)]
              ELSE [Logged(t, outcome) EXCEPT
                             !.pc = AfterZone(t.payload, t.zone),
                             !.zone = NextZone(t.payload, t.zone)]]
    /\ UNCHANGED <<devices, sensor_readings, sent, env, wsVars, mqVars, apiVars>>

----------------------------------------------------------------------------
(* handlePowerStatus *)

\* payload.power || payload.status || null
PowerOf(payload) ==
    IF Truthy(payload, "power") THEN Some(payload.power)
    ELSE OrNull(payload, "status")

powerReading(t) ==
    [device_id |-> t.deviceId, user_id |-> t.userId,
     water_1 |-> Null, water_2 |-> Null, water_3 |-> Null, water_4 |-> Null,
     gas_detected |-> Null, temp_1 |-> Null, temp_2 |-> Null,
     movement |-> Null, power_status |-> PowerOf(t.payload),
     received_at |-> t.receivedAt]

handlePowerStatus(i, outcome) ==
    /\ tasks[i].pc = "power_insert"
    /\ Charge(outcome)
    /\ sensor_readings' =
          IF outcome = "ok" THEN Append(sensor_readings, powerReading(tasks[i]))
          ELSE sensor_readings
    /\ tasks' = [tasks EXCEPT ![i] =
          [Logged(tasks[i], outcome) EXCEPT !.pc = HandlerReturned(outcome)]]
    /\ UNCHANGED <<devices, alerts, sent, env, wsVars, mqVars, apiVars>>

----------------------------------------------------------------------------
(* Live connections and the broker client, as constructed. *)

\* connection attempts per behaviour
MaxConns == 2

ConnIds == 1..MaxConns

\* a connection that has not been attempted yet; once attempted, readyState is
\* that of the socket, pc the await at which _handleConnection is suspended,
\* listening whether the pong, message and close listeners are attached, out
\* the frames written to the socket, closeCode the code of ws.close, results
\* how the awaited calls of _handleConnection settled, evicted whether the
\* heartbeat terminated it
NoConnection ==
    [readyState |-> "none", pc |-> "idle", token |-> "", userId |-> "",
     authId |-> Null, isAlive |-> Null, listening |-> FALSE, closeCode |-> 0,
     out |-> << >>, subscribedDevices |-> {}, results |-> << >>,
     evicted |-> FALSE, probe |-> FALSE, pongs |-> 0]

\* topics are strings, written as sequences of characters; a stands for the
\* segment apn, d for device, t for telemetry, c for commands
DefaultPrefix == <<"a", "/", "d">>

\* constructor of MQTTService with MQTT_TOPIC_PREFIX || 'apn/device': no
\* client, not connected. link is the state of the client (none, connecting,
\* connected, offline, ending, ended, or unconfigured when connect() returned
\* for want of settings), subscribed and pending the broker's subscription
\* and the subscribe request in flight, listeners the number of 'error'
\* listeners, last the most recent lifecycle event, unhandled whether an
\* 'error' event was emitted to no listener, published the packets handed to
\* the client, returns the results of the publish calls, session whether a
\* connection was lost before, messages and errors the number received,
\* inbound the last message received, reported the last error of the client
Constructed(topicPrefix) ==
    [topicPrefix |-> topicPrefix, isConnected |-> FALSE, link |-> "none",
     subscribed |-> FALSE, pending |-> Null, listeners |-> 0, last |-> "none",
     unhandled |-> FALSE, published |-> << >>, returns |-> << >>,
     session |-> 0, messages |-> 0, errors |-> 0, inbound |-> << >>,
     reported |-> << >>]

NotConnected == Constructed(DefaultPrefix)

----------------------------------------------------------------------------
(* Specifications. *)

\* no connection has been attempted: the registry is the empty Map
InitWebSocket ==
    /\ conns = [c \in ConnIds |-> NoConnection]
    /\ clients = << >>
    /\ calls = << >>
    /\ commands = << >>
    /\ wss = [ticks |-> 0, frames |-> 0, closed |-> FALSE, received |-> << >>]

\* the MQTTService as constructed, before connect()
InitBroker ==
    /\ mqtt = NotConnected
    /\ emitted = << >>

\* no command or request has been received
InitApi ==
    /\ commandTasks = << >>
    /\ notifications = << >>
    /\ requests = << >>
    /\ push_tokens = << >>
    /\ sockets = << >>
    /\ archived_alerts = << >>

InitTables ==
    /\ InitApi
    /\ devices = InitialDevices
    /\ alerts = << >>
    /\ sensor_readings = << >>
    /\ tasks = << >>
    /\ sent = << >>
    /\ faults = 0
    /\ InitWebSocket
    /\ InitBroker

\* any device sends any payload of the catalog, handlers interleave
Init ==
    /\ InitTables
    /\ env = [run |-> "interleaved"]

Next ==
    \/ \E d \in Senders, p \in Payloads : handleMessage(d, p)
    \/ \E i \in DOMAIN tasks, o \in Outcomes : handleTelemetry(i, o)
    \/ \E i \in DOMAIN tasks, o \in Outcomes : handleAlert(i, o)
    \/ \E i \in DOMAIN tasks, o \in Outcomes : handleAlertGas(i, o)
    \/ \E i \in DOMAIN tasks, o \in Outcomes : handleAlertCleared(i, o)
    \/ \E i \in DOMAIN tasks, o \in Outcomes : handleSensorReading(i, o)
    \/ \E i \in DOMAIN tasks, o \in Outcomes : zoneCheck(i, o)
    \/ \E i \in DOMAIN tasks, o \in Outcomes : zoneInsert(i, o)
    \/ \E i \in DOMAIN tasks, o \in Outcomes : handlePowerStatus(i, o)
    \/ \E i \in DOMAIN tasks : Forward(i)

Spec == Init /\ [][Next]_vars

\* the devices of two owners send water readings, water alerts and clears, and
\* each handler finishes before the next event arrives
InitSeq ==
    /\ InitTables
    /\ env = [run |-> "sequential"]

SeqSpec == InitSeq /\ [][Next]_vars

\* one device sends one payload, drawn from the payload families
InitProbe ==
    /\ InitTables
    /\ \E p \in ProbePayloads : env = [run |-> "probe", probe |-> p]

ProbeSpec == InitProbe /\ [][Next]_vars

\* the steps that resume a suspended handler: a storage operation settles, or
\* the router continues after the handler it awaited
Resume ==
    \/ \E i \in DOMAIN tasks, o \in Outcomes : handleTelemetry(i, o)
    \/ \E i \in DOMAIN tasks, o \in Outcomes : handleAlert(i, o)
    \/ \E i \in DOMAIN tasks, o \in Outcomes : handleAlertGas(i, o)
    \/ \E i \in DOMAIN tasks, o \in Outcomes : handleAlertCleared(i, o)
    \/ \E i \in DOMAIN tasks, o \in Outcomes : handleSensorReading(i, o)
    \/ \E i \in DOMAIN tasks, o \in Outcomes : zoneCheck(i, o)
    \/ \E i \in DOMAIN tasks, o \in Outcomes : zoneInsert(i, o)
    \/ \E i \in DOMAIN tasks, o \in Outcomes : handlePowerStatus(i, o)
    \/ \E i \in DOMAIN tasks : Forward(i)

\* every storage operation settles and the event loop runs every continuation
\* that is ready
FairSpec == Init /\ [][Next]_vars /\ WF_vars(Resume)

----------------------------------------------------------------------------
(* Water alerts of the sensor-reading handler. *)

\* the active WATER_DETECTED alerts of a device and zone in table `al`
ActiveWater(al, deviceId, z) ==
    {k \in DOMAIN al :
        /\ al[k].device_id = deviceId
        /\ al[k].alert_type = "WATER_DETECTED"
        /\ al[k].sensor = Some(ZoneLabel(z))
        /\ al[k].is_active}

\* those of them that handleSensorReading inserted
ActiveWaterBySensor(al, deviceId, z) ==
    {k \in ActiveWater(al, deviceId, z) : al[k].origin = "handleSensorReading"}

Zones == {1, 2}

\* the step appends a row to the alerts table from handleSensorReading
SensorInsertsAlert ==
    /\ Len(alerts') = Len(alerts) + 1
    /\ alerts'[Len(alerts')].origin = "handleSensorReading"

\* C1: when the events are handled one after another, handleSensorReading
\* inserts a WATER_DETECTED alert for a (device, zone) only in a state where no
\* active WATER_DETECTED alert with that zone label exists for the device, and the
\* active WATER_DETECTED alerts it created number at most one per (device, zone).
C1_SequentialReadingsOneAlert ==
    /\ [](\A d \in DeviceIds, z \in Zones :
             Cardinality(ActiveWaterBySensor(alerts, d, z)) <= 1)
    /\ [][SensorInsertsAlert =>
             \A z \in Zones :
                 alerts'[Len(alerts')].sensor = Some(ZoneLabel(z))
                 => ActiveWater(alerts, alerts'[Len(alerts')].device_id, z) = {}]_vars

\* a stored reading of task i
ReadingStored(i) ==
    \E r \in DOMAIN sensor_readings : sensor_readings[r].received_at = i

\* two readings with zone 1 wet were handled for one device, both were stored,
\* and the one active zone-1 alert is the one of the first reading
C1_Witness ==
    \E i, j \in DOMAIN tasks :
        /\ i < j
        /\ tasks[i].deviceId = tasks[j].deviceId
        /\ tasks[i].pc = "done" /\ tasks[j].pc = "done"
        /\ tasks[i].messageType = "sensor_reading"
        /\ tasks[j].messageType = "sensor_reading"
        /\ zone1Detected(tasks[i].payload) /\ zone1Detected(tasks[j].payload)
        /\ ReadingStored(i) /\ ReadingStored(j)
        /\ ~tasks[j].failed
        /\ \E k \in DOMAIN alerts :
              /\ ActiveWaterBySensor(alerts, tasks[i].deviceId, 1) = {k}
              /\ alerts[k].received_at = i

\* C2: also when the handlers of several sensor readings interleave at their
\* awaits, no (device, zone label) has two active WATER_DETECTED alerts created
\* by handleSensorReading.
C2_AtMostOneActiveWaterAlert ==
    \A d \in DeviceIds, z \in Zones :
        \A j, k \in ActiveWaterBySensor(alerts, d, z) : j = k

----------------------------------------------------------------------------
(* A cleared zone is raised again. *)

\* alert-cleared message c of device d has made a WATER_DETECTED alert of zone z
\* inactive
ClearedBy(c, d, z) ==
    /\ tasks[c].messageType = "alert_cleared"
    /\ tasks[c].deviceId = d
    /\ \E k \in DOMAIN alerts :
          /\ alerts[k].device_id = d
          /\ alerts[k].alert_type = "WATER_DETECTED"
          /\ alerts[k].sensor = Some(ZoneLabel(z))
          /\ alerts[k].cleared_at = Some(c)

\* task r is a sensor reading of device d with zone z above the threshold
WetReading(r, d, z) ==
    /\ tasks[r].messageType = "sensor_reading"
    /\ tasks[r].deviceId = d
    /\ IF z = 1 THEN zone1Detected(tasks[r].payload)
                ELSE zone2Detected(tasks[r].payload)

\* r is the first such reading after message c, and it has been handled
NextReadingAfter(c, r, d, z) ==
    /\ c < r
    /\ ClearedBy(c, d, z)
    /\ WetReading(r, d, z)
    /\ tasks[r].pc = "done"
    /\ \A q \in DOMAIN tasks : (c < q /\ q < r) => ~WetReading(q, d, z)

\* a WATER_DETECTED alert of (d, z) was raised by a message between c and r
RaisedBetween(c, r, d, z) ==
    \E k \in DOMAIN alerts :
        /\ alerts[k].device_id = d
        /\ alerts[k].alert_type = "WATER_DETECTED"
        /\ alerts[k].sensor = Some(ZoneLabel(z))
        /\ c < alerts[k].received_at /\ alerts[k].received_at < r

\* reading r has created an alert of (d, z); once r is the last event handled it
\* is the one active alert of the zone; the alerts cleared by c are inactive
RaisedAgain(c, r, d, z) ==
    /\ \E k \in DOMAIN alerts :
          /\ alerts[k].received_at = r
          /\ alerts[k].origin = "handleSensorReading"
          /\ alerts[k].device_id = d
          /\ alerts[k].sensor = Some(ZoneLabel(z))
          /\ Len(tasks) = r => ActiveWater(alerts, d, z) = {k}
    /\ \A k \in DOMAIN alerts : alerts[k].cleared_at = Some(c) => ~alerts[k].is_active

----------------------------------------------------------------------------
(* Alerts of the alert handler. *)

\* two rows of the alerts table have the same (device, alert type, sensor label)
SameAlertKey(j, k) ==
    /\ alerts[j].device_id = alerts[k].device_id
    /\ alerts[j].alert_type = alerts[k].alert_type
    /\ alerts[j].sensor = alerts[k].sensor

\* C4: no two active alerts created by handleAlert share the same (device,
\* alert type, sensor label), also when the same alert message is delivered
\* twice.
C4_NoDuplicateActiveAlert ==
    \A j, k \in DOMAIN alerts :
        (/\ alerts[j].origin = "handleAlert" /\ alerts[k].origin = "handleAlert"
         /\ alerts[j].is_active /\ alerts[k].is_active
         /\ SameAlertKey(j, k))
        => j = k

----------------------------------------------------------------------------
(* The companion reading of a gas alert. *)

\* the sensor_readings rows stored with the received timestamp of alert row k
SameStamp(k) ==
    {r \in DOMAIN sensor_readings :
        sensor_readings[r].received_at = alerts[k].received_at}

\* those of them that are a gas reading of the alert's device and user
Companions(k) ==
    {r \in SameStamp(k) :
        /\ sensor_readings[r].device_id = alerts[k].device_id
        /\ sensor_readings[r].user_id = alerts[k].user_id
        /\ sensor_readings[r].gas_detected = Some(TRUE)
        /\ sensor_readings[r].water_1 = Null /\ sensor_readings[r].water_2 = Null
        /\ sensor_readings[r].water_3 = Null /\ sensor_readings[r].water_4 = Null
        /\ sensor_readings[r].temp_1 = Null /\ sensor_readings[r].temp_2 = Null
        /\ sensor_readings[r].movement = Null
        /\ sensor_readings[r].power_status = Null}

\* the alert message that inserted alert row k has been handled
Handled(k) == tasks[alerts[k].received_at].pc = "done"

ByAlertHandler == {k \in DOMAIN alerts : alerts[k].origin = "handleAlert"}

\* C5 (as amended): an alert of type GAS_LEAK_DETECTED inserted by handleAlert
\* has at most one SensorReading row with its received timestamp, that row is
\* for the same device and user with gas_detected = true and every other
\* measurement null, and once the message is handled with no storage failure
\* there is exactly one; an alert of any other type has none.
C5_GasAlertCompanion ==
    \A k \in ByAlertHandler :
        IF alerts[k].alert_type = "GAS_LEAK_DETECTED"
        THEN /\ Cardinality(SameStamp(k)) <= 1
             /\ SameStamp(k) = Companions(k)
             /\ (Handled(k) /\ ~tasks[alerts[k].received_at].failed)
                    => Cardinality(Companions(k)) = 1
        ELSE SameStamp(k) = {}

\* a gas alert with its companion reading and, in the same state, a handled
\* alert of another type
C5_Witness ==
    \E j, k \in ByAlertHandler :
        /\ alerts[k].alert_type = "GAS_LEAK_DETECTED"
        /\ Handled(k) /\ Cardinality(Companions(k)) = 1
        /\ alerts[j].alert_type # "GAS_LEAK_DETECTED"
        /\ Handled(j)

\* C5 (as stated): every handled GAS_LEAK_DETECTED alert of handleAlert has
\* exactly one companion reading.
C5_AsStated ==
    \A k \in ByAlertHandler :
        (alerts[k].alert_type = "GAS_LEAK_DETECTED" /\ Handled(k))
        => Cardinality(Companions(k)) = 1

----------------------------------------------------------------------------
(* The zone flags of a stored reading. *)

\* raw magnitude n of a payload, a missing entry counted as 0
Magnitude(payload, n) ==
    IF "water" \in DOMAIN payload /\ n \in DOMAIN payload.water
    THEN payload.water[n] ELSE 0

Flag(b) == IF b THEN Some(1) ELSE Some(0)

\* the rows handleSensorReading stored
StoredReadings ==
    {r \in DOMAIN sensor_readings :
        tasks[sensor_readings[r].received_at].messageType = "sensor_reading"}

\* C6: the row handleSensorReading stores has water_1 = water_2 = 1 if raw
\* magnitude 1 or raw magnitude 2 is greater than 500 and 0 otherwise, and
\* water_3 = water_4 = 1 if raw magnitude 3 or 4 is greater than 500 and 0
\* otherwise, a missing magnitude counted as 0.
C6_ZoneFlags ==
    \A r \in StoredReadings :
        LET row == sensor_readings[r]
            payload == tasks[row.received_at].payload
            wet1 == Magnitude(payload, 1) > 500 \/ Magnitude(payload, 2) > 500
            wet2 == Magnitude(payload, 3) > 500 \/ Magnitude(payload, 4) > 500
        IN /\ row.water_1 = Flag(wet1) /\ row.water_2 = Flag(wet1)
           /\ row.water_3 = Flag(wet2) /\ row.water_4 = Flag(wet2)

\* the stored row of a reading with magnitude 1 at the threshold and magnitude 3
\* above it
C6_Witness ==
    \E r \in StoredReadings :
        /\ tasks[sensor_readings[r].received_at].payload.water = <<500, 0, 501, 0>>
        /\ sensor_readings[r].water_1 = Some(0)
        /\ sensor_readings[r].water_3 = Some(1)

----------------------------------------------------------------------------
(* Classification. *)

\* the payload carries one of the water, gas, temperature and gyro fields
CarriesMeasurement(payload) ==
    \E f \in {"water", "gas", "temperature", "gyro"} : f \in DOMAIN payload

\* the payload carries an alert, or the cleared status
AlertOrCleared(payload) ==
    \/ "alert" \in DOMAIN payload /\ payload.alert # ""
    \/ "status" \in DOMAIN payload /\ payload.status = "ALERT_CLEARED"

\* C10: every payload carrying one of the water, gas, temperature and gyro
\* fields and neither an alert nor the cleared status is classified
\* sensor_reading.
C10_MeasurementsAreSensorReadings ==
    \A i \in DOMAIN tasks :
        (CarriesMeasurement(tasks[i].payload) /\ ~AlertOrCleared(tasks[i].payload))
        => tasks[i].messageType = "sensor_reading"

----------------------------------------------------------------------------
(* Forwarding to the owner's live connections. *)

\* the sendToUser calls made for telemetry event i
Sends(i) == {k \in DOMAIN sent : sent[k].data.receivedAt = i}

\* the device of event i has a row with the active flag set
KnownActive(i) ==
    /\ i \in DOMAIN tasks
    /\ devices[tasks[i].deviceId] # Null
    /\ devices[tasks[i].deviceId][1].is_active

\* the router's lookup for event i has returned an active device
Accepted(i) == i \in DOMAIN tasks /\ tasks[i].userId # ""

\* a call made for event i is for the owner of the device, carries the event as
\* it was emitted, and is made when no step of the event's handler remains
SentAsReceived ==
    \A i \in DOMAIN tasks : \A k \in Sends(i) :
        /\ KnownActive(i)
        /\ sent[k].userId = devices[tasks[i].deviceId][1].user_id
        /\ sent[k].data = [deviceId |-> tasks[i].deviceId,
                           messageType |-> determineMessageType(tasks[i].payload),
                           payload |-> tasks[i].payload,
                           receivedAt |-> i]
        /\ tasks[i].pc = "done"

SentOnce(i) == Cardinality(Sends(i)) = 1

\* C7 (as amended): for every telemetry event for which the router's device
\* lookup returns an active device, the router eventually calls sendToUser, and
\* calls it once, for the device's owner with the original envelope, after the
\* ingestion handler has returned, whatever the message type and whether the
\* handler's storage operations succeeded, returned an error or threw.
C7_AcceptedIsForwardedOnce ==
    /\ [](SentAsReceived /\ \A i \in DOMAIN tasks : Cardinality(Sends(i)) <= 1)
    /\ \A i \in 1..MaxMsgs : (Accepted(i) ~> SentOnce(i))

\* an unknown message and a reading whose insert failed have both been forwarded
C7_Witness ==
    \E i, j \in DOMAIN tasks :
        /\ tasks[i].messageType = "unknown" /\ SentOnce(i)
        /\ tasks[j].messageType = "sensor_reading" /\ tasks[j].failed /\ SentOnce(j)

\* C7 (as stated): every telemetry event whose device has an active row is
\* eventually forwarded once.
C7_AsStated == \A i \in 1..MaxMsgs : (KnownActive(i) ~> SentOnce(i))

----------------------------------------------------------------------------
(* Events of unknown and inactive devices. *)

\* the device of event i has no row, or its row has the active flag false
Rejected(i) ==
    \/ devices[tasks[i].deviceId] = Null
    \/ ~devices[tasks[i].deviceId][1].is_active

\* event i has left no trace in the tables or on the live connections, and no
\* exception has left the router
Discarded(i) ==
    /\ \A k \in DOMAIN alerts :
          alerts[k].received_at # i /\ alerts[k].cleared_at # Some(i)
    /\ \A r \in DOMAIN sensor_readings : sensor_readings[r].received_at # i
    /\ Sends(i) = {}
    /\ ~tasks[i].escaped
    /\ tasks[i].pc \in {"lookup", "done"}

\* C8: a telemetry event whose device has no row, or an inactive row, is
\* discarded: it inserts and updates no Alert or SensorReading row, nothing is
\* sent, and no error leaves the router.
C8_UnknownOrInactiveDiscarded ==
    \A i \in DOMAIN tasks : Rejected(i) => Discarded(i)

\* an alert of the inactive device and an alert-cleared message of the unknown
\* device have been handled
C8_Witness ==
    \E i, j \in DOMAIN tasks :
        /\ tasks[i].deviceId = "d3" /\ tasks[i].messageType = "alert"
        /\ tasks[i].pc = "done"
        /\ tasks[j].deviceId = "d4" /\ tasks[j].messageType = "alert_cleared"
        /\ tasks[j].pc = "done"

----------------------------------------------------------------------------
(* Alert-cleared messages. *)

\* C9: a handled message of a known active device whose status is ALERT_CLEARED,
\* with or without an alert or alertType field and a sensor label, went to
\* handleAlertCleared and has created no Alert row.
C9_ClearedStatusIsRoutedToCleared ==
    \A i \in DOMAIN tasks :
        (/\ Accepted(i)
         /\ "status" \in DOMAIN tasks[i].payload
         /\ tasks[i].payload.status = "ALERT_CLEARED"
         /\ tasks[i].pc = "done")
        => /\ tasks[i].messageType = "alert_cleared"
           /\ \A k \in DOMAIN alerts : alerts[k].received_at # i

----------------------------------------------------------------------------
(* WebSocketService: connections, registry, heartbeat.  A socket that is    *)
(* not open drops what is written to it (ws.send and ws.close do not throw  *)
(* on a closing or closed socket).                                          *)

\* heartbeat ticks per behaviour
MaxTicks == 2
\* sendToUser calls per behaviour
MaxSends == 1
\* client frames per behaviour
MaxFrames == 1

\* the bearer token of a connection attempt: none, one the identity provider
\* rejects, three it accepts
Tokens == {"", "bad", "t1", "t2", "t3"}

\* supabase.auth.getUser(token): the auth user of the token, Null if rejected
AuthUser(token) ==
    CASE token = "t1" -> Some("a1")
      [] token = "t2" -> Some("a2")
      [] token = "t3" -> Some("a3")
      [] OTHER        -> Null

\* the rows of the users table with auth_id = authId; a3 has no profile
UsersByAuthId(authId) ==
    CASE authId = Some("a1") -> {"u1"}
      [] authId = Some("a2") -> {"u2"}
      [] OTHER               -> {}

\* the users telemetry is sent to; u3 never connects
UserIds == {"u1", "u3"}

\* the frames a client sends: decoded JSON objects, and one that is not JSON
Frames ==
    {[type |-> "ping"],
     [type |-> "subscribe_device", deviceId |-> "d1"],
     [type |-> "command", deviceId |-> "d1", command |-> "VALVE_OFF"],
     [deviceId |-> "d1", command |-> "VALVE_OFF", timestamp |-> "t0"],
     [type |-> "status", deviceId |-> "d2", command |-> "VALVE_OFF"],
     [type |-> "ping", deviceId |-> "d1", command |-> "VALVE_OFF"],
     [type |-> "subscribe_device", deviceId |-> "d1", command |-> "VALVE_OFF"],
     [type |-> "command", deviceId |-> "d1"],
     [type |-> "command", command |-> "VALVE_OFF"],
     [type |-> "command", deviceId |-> "d1", command |-> ""],
     [malformed |-> TRUE]}

\* what the clients of the run do: every token with one kind of frame, or every
\* kind of frame on connections of accepted tokens
TokenPool ==
    CASE env.run = "frames"   -> {"t1", "t3"}
      [] env.run = "commands" -> {"t1", "t2"}
      [] env.run = "heartbeat" -> {"t1", "bad"}
      [] env.run = "sending"  -> {"t1", "t3"}
      [] OTHER                -> Tokens

\* a command for each device: the user's own, another user's, an inactive
\* one, one that is not paired
CommandFrames ==
    {[type |-> "command", deviceId |-> d, command |-> "VALVE_OFF"] : d \in DeviceIds}

FramePool ==
    CASE env.run = "frames"   -> Frames
      [] env.run = "commands" -> CommandFrames
      [] OTHER                -> {[type |-> "ping"]}

TickLimit == IF env.run = "frames" THEN 1 ELSE MaxTicks

\* wss.clients: the sockets the server holds, until their close event
wssClients == {c \in ConnIds : conns[c].readyState \in {"open", "closing"}}

\* the connections in the registry
Registered == UNION {clients[u] : u \in DOMAIN clients}

\* ws.close(code, reason)
wsClose(ws, code) ==
    IF ws.readyState = "open"
    THEN [ws EXCEPT !.readyState = "closing", !.closeCode = code]
    ELSE ws

wsTerminateNever(ws) == ws

\* ws.terminate()
wsTerminate(ws) ==
    IF ws.readyState = "open" THEN [ws EXCEPT !.readyState = "closing"] ELSE ws

\* ws.send(JSON.stringify(frame))
wsSend(ws, frame) ==
    IF ws.readyState = "open" THEN [ws EXCEPT !.out = Append(@, frame)] ELSE ws

\* if (!this.clients.has(userId)) this.clients.set(userId, new Set());
\* this.clients.get(userId).add(ws)
Added(registry, c, userId) ==
    IF userId \in DOMAIN registry
    THEN [registry EXCEPT ![userId] = @ \cup {c}]
    ELSE registry @@ (userId :> {c})

DisconnectedKeepsKey(registry, c, userId) ==
    IF userId \in DOMAIN registry
    THEN [registry EXCEPT ![userId] = @ \ {c}]
    ELSE registry

\* _handleDisconnection(ws, userId)
Disconnected(registry, c, userId) ==
    IF userId \in DOMAIN registry
    THEN IF registry[userId] \ {c} = {}
         THEN [u \in DOMAIN registry \ {userId} |-> registry[u]]
         ELSE [registry EXCEPT ![userId] = @ \ {c}]
    ELSE registry

\* wss.on('connection'): _handleConnection up to its first await
handleConnection(c, token) ==
    /\ conns[c].readyState = "none"
    /\ \A b \in ConnIds : b < c => conns[b].readyState # "none"
    /\ ~wss.closed
    /\ conns' = [conns EXCEPT ![c] =
          IF token = ""
          THEN wsClose([@ EXCEPT !.readyState = "open", !.pc = "done"], 4001)
          ELSE [@ EXCEPT !.readyState = "open", !.token = token, !.pc = "getUser"]]
    /\ UNCHANGED <<devices, alerts, sensor_readings, tasks, sent, faults, env,
                   clients, calls, commands, wss, mqVars, apiVars>>

TokenAcceptedAlways(outcome, token) == outcome = "ok"

\* if (error || !user) after supabase.auth.getUser(token)
TokenAccepted(outcome, token) == outcome = "ok" /\ AuthUser(token) # Null

\* _handleConnection resumes when supabase.auth.getUser(token) has settled
handleConnectionGetUser(c, outcome) ==
    /\ conns[c].pc = "getUser"
    /\ Charge(outcome)
    /\ LET ws == [conns[c] EXCEPT !.results = Append(@, outcome)] IN
       conns' = [conns EXCEPT ![c] =
          IF outcome = "throw" THEN [wsClose(ws, 4003) EXCEPT !.pc = "done"]
          ELSE IF ~TokenAccepted(outcome, ws.token)
               THEN [wsClose(ws, 4002) EXCEPT !.pc = "done"]
               ELSE [ws EXCEPT !.authId = AuthUser(ws.token), !.pc = "lookup"]]
    /\ UNCHANGED <<devices, alerts, sensor_readings, tasks, sent, env,
                   clients, calls, commands, wss, mqVars, apiVars>>

UserDataAuthId(outcome, authId) == IF outcome = "ok" THEN {authId[1]} ELSE {}

\* the row of the users lookup, when it gave one: if (userError || !userData)
UserData(outcome, authId) ==
    IF outcome = "ok" /\ ~maybeSingle(UsersByAuthId(authId)).error
    THEN maybeSingle(UsersByAuthId(authId)).data
    ELSE {}

\* _handleConnection resumes when the users lookup has settled: the connection
\* is registered, greeted, and its listeners are attached
handleConnectionLookup(c, outcome) ==
    /\ conns[c].pc = "lookup"
    /\ Charge(outcome)
    /\ LET ws == [conns[c] EXCEPT !.results = Append(@, outcome)]
           userData == UserData(outcome, ws.authId)
           userId == CHOOSE u \in userData : TRUE
       IN IF outcome = "throw"
          THEN /\ conns' = [conns EXCEPT ![c] = [wsClose(ws, 4003) EXCEPT !.pc = "done"]]
               /\ clients' = clients
          ELSE IF userData = {}
          THEN /\ conns' = [conns EXCEPT ![c] = [wsClose(ws, 4004) EXCEPT !.pc = "done"]]
               /\ clients' = clients
          ELSE /\ conns' = [conns EXCEPT ![c] =
                     [wsSend(ws, [type |-> "connected", userId |-> userId])
                        EXCEPT !.userId = userId, !.isAlive = Some(TRUE),
                               !.listening = TRUE, !.pc = "done"]]
               /\ clients' = Added(clients, c, userId)
    /\ UNCHANGED <<devices, alerts, sensor_readings, tasks, sent, env,
                   calls, commands, wss, mqVars, apiVars>>

\* the socket closes (the client went away, or a close or terminate of the
\* server completed): the close event runs _handleDisconnection if the
\* listener is attached
socketCloses(c) ==
    /\ c \in wssClients
    /\ conns' = [conns EXCEPT ![c].readyState = "closed"]
    /\ clients' = IF conns[c].listening
                  THEN Disconnected(clients, c, conns[c].userId)
                  ELSE clients
    /\ UNCHANGED <<devices, alerts, sensor_readings, tasks, sent, faults, env,
                   calls, commands, wss, mqVars, apiVars>>

\* the run records which probes the peers have answered and how often the pong
\* listener ran; the other runs leave out the pongs that reach no listener
ProbesTracked == env.run = "heartbeat"

\* one callback of the heartbeat interval, over wss.clients
startHeartbeat ==
    /\ wss.ticks < TickLimit
    /\ wss' = [wss EXCEPT !.ticks = @ + 1]
    /\ conns' = [c \in ConnIds |->
          IF c \notin wssClients THEN conns[c]
          ELSE IF conns[c].isAlive = Some(FALSE)
               THEN [wsTerminate(conns[c]) EXCEPT !.evicted = TRUE]
               ELSE [conns[c] EXCEPT !.isAlive = Some(FALSE), !.probe = ProbesTracked]]
    /\ UNCHANGED <<devices, alerts, sensor_readings, tasks, sent, faults, env,
                   clients, calls, commands, mqVars, apiVars>>

AfterPongFlagKept(ws) ==
    [ws EXCEPT !.pongs = IF ProbesTracked THEN @ + 1 ELSE @]

\* ws.on('pong', () => { ws.isAlive = true })
AfterPong(ws) ==
    [ws EXCEPT !.isAlive = Some(TRUE),
               !.pongs = IF ProbesTracked THEN @ + 1 ELSE @]

\* the client answers the probe of the last tick (probe: a ping was sent to
\* the socket and not answered yet); the pong listener runs if it is attached
pong(c) ==
    /\ conns[c].readyState = "open"
    /\ IF ProbesTracked THEN conns[c].probe
       ELSE conns[c].listening /\ conns[c].isAlive = Some(FALSE)
    /\ conns' = [conns EXCEPT ![c] =
          IF conns[c].listening THEN AfterPong([@ EXCEPT !.probe = FALSE])
          ELSE [@ EXCEPT !.probe = FALSE]]
    /\ UNCHANGED <<devices, alerts, sensor_readings, tasks, sent, faults, env,
                   clients, calls, commands, wss, mqVars, apiVars>>

TypeOf(message) == IF Has(message, "type") THEN message.type ELSE ""

IsCommandAnyType(message) ==
    Truthy(message, "deviceId") /\ Truthy(message, "command")

\* the switch of _handleClientMessage reaches the command branch, and
\* message.deviceId && message.command
IsCommand(message) ==
    /\ TypeOf(message) \notin {"ping", "subscribe_device"}
    /\ Truthy(message, "deviceId") /\ Truthy(message, "command")

\* the event _handleClientMessage emits
deviceCommand(ws, message) ==
    [userId |-> ws.userId, deviceId |-> message.deviceId,
     command |-> message.command,
     timestamp |-> IF Truthy(message, "timestamp") THEN message.timestamp ELSE "now"]

\* the connection after _handleClientMessage(ws, data)
AfterClientMessage(ws, message) ==
    IF Has(message, "malformed") THEN ws
    ELSE IF TypeOf(message) = "ping" THEN wsSend(ws, [type |-> "pong"])
    ELSE IF TypeOf(message) = "subscribe_device" /\ Truthy(message, "deviceId")
         THEN wsSend([ws EXCEPT !.subscribedDevices = @ \cup {message.deviceId}],
                     [type |-> "subscribed", deviceId |-> message.deviceId])
    ELSE ws

HasMessageListenerFromOpen(ws) == ws.readyState = "open"

\* ws.on('message', ...) has run: it does at the end of _handleConnection,
\* after the connection was registered
HasMessageListener(ws) == ws.listening

\* a frame arrives on an open connection: ws.on('message') calls
\* _handleClientMessage if the listener is attached
handleClientMessage(c, message) ==
    /\ conns[c].readyState = "open"
    /\ wss.frames < MaxFrames
    /\ wss' = [wss EXCEPT !.frames = @ + 1, !.received = <<c, message>>]
    /\ IF HasMessageListener(conns[c])
       THEN /\ conns' = [conns EXCEPT ![c] = AfterClientMessage(@, message)]
            /\ commands' = IF ~Has(message, "malformed") /\ IsCommand(message)
                           THEN Append(commands, deviceCommand(conns[c], message))
                           ELSE commands
       ELSE UNCHANGED <<conns, commands>>
    /\ UNCHANGED <<devices, alerts, sensor_readings, tasks, sent, faults, env,
                   clients, calls, mqVars, apiVars>>

userConnectionsOfAnyUser(registry, userId) ==
    UNION {registry[u] : u \in DOMAIN registry}

\* const userConnections = this.clients.get(userId), the empty set standing for
\* undefined
userConnectionsOf(registry, userId) ==
    IF userId \in DOMAIN registry THEN registry[userId] ELSE {}

\* ws.send(message) on an open socket whose write fails: nothing throws, the
\* socket reports the failure on its error event and goes down, and the frame
\* does not reach the peer
wsSendFails(ws) ==
    IF ws.readyState = "open" THEN [ws EXCEPT !.readyState = "closing"] ELSE ws

forEachSendUntilFailure(connections, targets, failing, frame) ==
    [c \in ConnIds |->
        IF c \notin targets THEN connections[c]
        ELSE IF \E b \in targets :
                   b < c /\ (b \in failing \/ connections[b].readyState # "open")
             THEN connections[c]
             ELSE IF c \in failing THEN wsSendFails(connections[c])
                  ELSE wsSend(connections[c], frame)]

\* userConnections.forEach((ws) => { if (ws.readyState === ws.OPEN) ws.send(message) }):
\* the connections after the loop over targets, the writes to the connections
\* in failing fail
forEachSend(connections, targets, failing, frame) ==
    [c \in ConnIds |->
        IF c \notin targets THEN connections[c]
        ELSE IF c \in failing THEN wsSendFails(connections[c])
             ELSE wsSend(connections[c], frame)]

\* sendToUser(userId, telemetryData); the data is the number of the call
sendToUser(userId, failing) ==
    /\ Len(calls) < MaxSends
    /\ LET data == Len(calls) + 1
           userConnections == userConnectionsOf(clients, userId)
           none == userConnections = {}
       IN /\ calls' = Append(calls, [kind |-> "telemetry", userId |-> userId,
                                     data |-> data, returned |-> ~none,
                                     failed |-> failing])
          /\ conns' = forEachSend(conns, userConnections, failing,
                                  [type |-> "telemetry", data |-> data])
    /\ UNCHANGED <<devices, alerts, sensor_readings, tasks, sent, faults, env,
                   clients, commands, wss, mqVars, apiVars>>

\* broadcast(data); it returns nothing
broadcast(failing) ==
    /\ Len(calls) < MaxSends
    /\ LET data == Len(calls) + 1
       IN /\ calls' = Append(calls, [kind |-> "broadcast", userId |-> "",
                                     data |-> data, returned |-> FALSE,
                                     failed |-> failing])
          /\ conns' = forEachSend(conns, Registered, failing,
                                  [type |-> "broadcast", data |-> data])
    /\ UNCHANGED <<devices, alerts, sensor_readings, tasks, sent, faults, env,
                   clients, commands, wss, mqVars, apiVars>>

\* close(): every registered connection is closed, the registry cleared and
\* the server stops accepting connections
close ==
    /\ ~wss.closed
    /\ conns' = [c \in ConnIds |->
          IF c \in Registered THEN wsClose(conns[c], 1001) ELSE conns[c]]
    /\ clients' = << >>
    /\ wss' = [wss EXCEPT !.closed = TRUE]
    /\ UNCHANGED <<devices, alerts, sensor_readings, tasks, sent, faults, env,
                   calls, commands, mqVars, apiVars>>

\* clients open connections, send frames, answer probes and go away while the
\* heartbeat runs and telemetry is sent to users
InitWs ==
    /\ InitTables
    /\ env = [run |-> "websocket"]

NextWs ==
    \/ \E c \in ConnIds, token \in TokenPool : handleConnection(c, token)
    \/ \E c \in ConnIds, o \in Outcomes : handleConnectionGetUser(c, o)
    \/ \E c \in ConnIds, o \in Outcomes : handleConnectionLookup(c, o)
    \/ \E c \in ConnIds : socketCloses(c)
    \/ startHeartbeat
    \/ \E c \in ConnIds : pong(c)
    \/ \E c \in ConnIds, m \in FramePool : handleClientMessage(c, m)
    \/ \E u \in UserIds : sendToUser(u, {})
    \/ close

WsSpec == InitWs /\ [][NextWs]_vars

\* a socket that is closing does close: its close event is delivered
FairWsSpec == InitWs /\ [][NextWs]_vars /\ \A c \in ConnIds : WF_vars(socketCloses(c))

InitFrames ==
    /\ InitTables
    /\ env = [run |-> "frames"]

\* the same clients, with the answers of the peers to the probes recorded
InitHeartbeat ==
    /\ InitTables
    /\ env = [run |-> "heartbeat"]

HeartbeatSpec == InitHeartbeat /\ [][NextWs]_vars

FrameSpec == InitFrames /\ [][NextWs]_vars

----------------------------------------------------------------------------
(* Only authenticated connections are registered. *)

\* the token of connection c was verified by the identity provider and the
\* profile lookup gave the internal user id u
Authenticated(c, u) ==
    /\ conns[c].results = <<"ok", "ok">>
    /\ AuthUser(conns[c].token) # Null
    /\ UsersByAuthId(AuthUser(conns[c].token)) = {u}

\* the step is a sendToUser call
SendStep == Len(calls') = Len(calls) + 1

\* C11: a connection is in the registry only if the identity provider verified
\* its token and its profile lookup succeeded, and it is in the set of exactly
\* that internal user id; a connection without a token or with a rejected token
\* is closed and never in the registry; sendToUser returns true only if a
\* connection authenticated as that user is registered.
C11_OnlyAuthenticatedRegistered ==
    /\ [](\A u \in DOMAIN clients : \A c \in clients[u] : Authenticated(c, u))
    /\ [](\A c \in ConnIds :
             (conns[c].pc = "done" /\ AuthUser(conns[c].token) = Null)
             => /\ c \notin Registered
                /\ conns[c].readyState \in {"closing", "closed"})
    /\ [][SendStep =>
             LET call == calls'[Len(calls')]
             IN call.returned <=>
                   \E c \in ConnIds :
                       /\ call.userId \in DOMAIN clients
                       /\ c \in clients[call.userId]
                       /\ Authenticated(c, call.userId)]_vars

\* a connection with a rejected token is closed, a connection of u1 is
\* registered and a sendToUser for u1 has returned true
C11_Witness ==
    \E b, c \in ConnIds :
        /\ conns[b].token = "bad" /\ conns[b].pc = "done"
        /\ "u1" \in DOMAIN clients /\ c \in clients["u1"]
        /\ \E k \in DOMAIN calls : calls[k].userId = "u1" /\ calls[k].returned

----------------------------------------------------------------------------
(* Close codes of failed connection attempts. *)

\* the code of the failure class of connection attempt c, from its token and
\* from how its awaited calls settled; 0 if the attempt has not failed
FailureCode(c) ==
    LET ws == conns[c]
        settled(n) == IF n <= Len(ws.results) THEN ws.results[n] ELSE "none"
    IN IF ws.token = "" THEN 4001
       ELSE IF settled(1) = "throw" THEN 4003
       ELSE IF settled(1) = "error" \/ AuthUser(ws.token) = Null THEN 4002
       ELSE IF settled(2) = "throw" THEN 4003
       ELSE IF settled(2) = "error" \/ UsersByAuthId(AuthUser(ws.token)) = {}
            THEN 4004
       ELSE 0

\* _handleConnection has returned for c and the attempt has failed
FailedAttempt(c) == conns[c].pc = "done" /\ FailureCode(c) # 0

----------------------------------------------------------------------------
(* Eviction by the heartbeat. *)

\* the step is one callback of the heartbeat interval
TickStep == wss'.ticks = wss.ticks + 1

\* connection c was registered, an earlier tick marked it not alive and no pong
\* has arrived since
Unanswered(c) ==
    /\ c \in wssClients
    /\ conns[c].listening
    /\ conns[c].isAlive = Some(FALSE)

\* the heartbeat has terminated the registered connection c and its socket has
\* not closed yet
Terminated(c) ==
    /\ conns[c].evicted
    /\ conns[c].listening
    /\ conns[c].readyState = "closing"

\* c is in no connection set, and its user has no key unless other connections
\* of the user remain
Removed(c) ==
    /\ c \notin Registered
    /\ conns[c].userId \in DOMAIN clients => clients[conns[c].userId] # {}

\* C13: a registered connection that a heartbeat tick has marked not alive and
\* that has received no pong since is terminated by the next tick, and a
\* terminated connection is eventually removed from its user's connection set,
\* with the user's key if it was the user's only connection.
C13_StaleConnectionEvicted ==
    /\ [][TickStep =>
             \A c \in ConnIds :
                 Unanswered(c) => (conns'[c].evicted /\ conns'[c].readyState = "closing")]_vars
    /\ \A c \in ConnIds : (Terminated(c) ~> Removed(c))

\* the only connection of u1 was terminated by the heartbeat, has closed, and
\* u1 has no key, with no shutdown
C13_Witness ==
    \E c \in ConnIds :
        /\ conns[c].evicted /\ conns[c].listening
        /\ conns[c].userId = "u1"
        /\ conns[c].readyState = "closed"
        /\ conns[c].closeCode = 0
        /\ "u1" \notin DOMAIN clients
        /\ ~wss.closed

----------------------------------------------------------------------------
(* Shape of the registry. *)

\* the close event of connection c is delivered in the step
CloseStep(c) == conns[c].readyState # "closed" /\ conns'[c].readyState = "closed"

\* C14: the registry maps no user id to an empty connection set, no connection
\* is in the sets of two user ids, and the step in which the close handler
\* removes the last connection of a user deletes the user's key.
C14_NoEmptyConnectionSet ==
    /\ [](\A u \in DOMAIN clients : clients[u] # {})
    /\ [](\A u, v \in DOMAIN clients : u # v => clients[u] \cap clients[v] = {})
    /\ [][\A u \in DOMAIN clients : \A c \in clients[u] :
             (CloseStep(c) /\ clients[u] = {c}) => u \notin DOMAIN clients']_vars

\* the only connection of u1 has closed and u1 has no key, while a connection of
\* u2 is registered and the service has not been shut down
C14_Witness ==
    \E b, c \in ConnIds :
        /\ conns[b].userId = "u1" /\ conns[b].listening
        /\ conns[b].readyState = "closed"
        /\ "u1" \notin DOMAIN clients
        /\ "u2" \in DOMAIN clients /\ clients["u2"] = {c}
        /\ ~wss.closed

----------------------------------------------------------------------------
(* Delivery to a user's connections. *)

\* C15: a call sendToUser(userId, data) appends one telemetry frame carrying
\* data to every connection registered for userId whose socket is open and
\* leaves every other connection as it was; for a user with no registered
\* connection it writes to no connection and returns false.
C15_SendReachesOnlyTheUser ==
    [][SendStep =>
         LET call == calls'[Len(calls')]
             u == call.userId
             mine == IF u \in DOMAIN clients THEN clients[u] ELSE {}
         IN /\ \A c \in ConnIds :
                  IF c \in mine /\ conns[c].readyState = "open"
                  THEN conns'[c] =
                         [conns[c] EXCEPT !.out =
                            Append(@, [type |-> "telemetry", data |-> call.data])]
                  ELSE conns'[c] = conns[c]
            /\ mine = {} => (~call.returned /\ conns' = conns)]_vars

\* a call for u1 returned true and wrote its frame to u1's open connection while
\* the connection of u2 holds nothing but its connected frame
C15_Witness ==
    /\ Len(calls) = 1 /\ calls[1].userId = "u1" /\ calls[1].returned
    /\ \E b, c \in ConnIds :
         /\ conns[b].userId = "u1" /\ conns[b].readyState = "open"
         /\ Len(conns[b].out) = 2
         /\ conns[b].out[2] = [type |-> "telemetry", data |-> calls[1].data]
         /\ conns[c].userId = "u2" /\ conns[c].readyState = "open"
         /\ "u2" \in DOMAIN clients /\ c \in clients["u2"]
         /\ Len(conns[c].out) = 1

----------------------------------------------------------------------------
(* Commands sent by clients. *)

\* a frame is received in the step
FrameStep == wss'.frames = wss.frames + 1

\* the frame carries a device identifier and a command
CarriesCommand(m) ==
    /\ "malformed" \notin DOMAIN m
    /\ "deviceId" \in DOMAIN m /\ m.deviceId # ""
    /\ "command" \in DOMAIN m /\ m.command # ""

\* the device_command event of frame m received on connection c
CommandEvent(c, m) ==
    [userId |-> conns[c].userId, deviceId |-> m.deviceId, command |-> m.command,
     timestamp |-> IF "timestamp" \in DOMAIN m THEN m.timestamp ELSE "now"]

\* C20: a well-formed frame received on a registered open connection whose type
\* is neither ping nor subscribe_device and which carries a device identifier
\* and a command raises exactly one device_command event {userId of the
\* connection, deviceId, command, timestamp of the frame or the time of
\* receipt}; every other frame raises none, and nothing else raises one.
C20_CommandFramesRaiseOneEvent ==
    /\ [][FrameStep =>
            LET c == wss'.received[1]
                m == wss'.received[2]
            IN IF /\ conns[c].listening
                  /\ CarriesCommand(m)
                  /\ ("type" \in DOMAIN m => m.type \notin {"ping", "subscribe_device"})
               THEN commands' = Append(commands, CommandEvent(c, m))
               ELSE commands' = commands]_vars
    /\ [][commands' # commands => FrameStep]_vars

\* a frame of type status with a device identifier and a command has raised
\* the event for the user of its connection
C20_Witness ==
    /\ Len(wss.received) = 2
    /\ "type" \in DOMAIN wss.received[2] /\ wss.received[2].type = "status"
    /\ commands = <<[userId |-> "u1", deviceId |-> "d2", command |-> "VALVE_OFF",
                     timestamp |-> "now"]>>

\* the claim as stated: whatever its type, a frame with both fields received on
\* an open connection raises exactly one event
C20_AsStated ==
    [][FrameStep =>
         LET c == wss'.received[1]
             m == wss'.received[2]
         IN IF CarriesCommand(m)
            THEN commands' = Append(commands, CommandEvent(c, m))
            ELSE commands' = commands]_vars

----------------------------------------------------------------------------
(* MQTTService: the events of the broker client, inbound messages, publish. *)

\* inbound messages per behaviour
MaxMessages == 2
\* client errors per behaviour
MaxErrors == 2
\* publish calls per behaviour
MaxPublishes == 1

\* what a run exercises: every message and error, or reconnection with fewer
MessageLimit == IF env.run = "reconnection" THEN 1 ELSE MaxMessages

ErrorLimit == IF env.run = "reconnection" THEN 1 ELSE MaxErrors

\* MQTT_TOPIC_PREFIX: unset (the default), or a prefix of one segment
Prefixes == {DefaultPrefix, <<"a">>}

\* device identifiers as they appear in topics
DeviceNames == {<<"D", "1">>, <<"D", "2">>}

\* `${this.topicPrefix}/+/telemetry`
telemetryTopic(topicPrefix) == topicPrefix \o <<"/", "+", "/", "t">>

\* the topic on which a device publishes, which the subscription matches
TopicOf(topicPrefix, device) == topicPrefix \o <<"/">> \o device \o <<"/", "t">>

\* `apn/device/${deviceId}/commands`
CommandTopics == {DefaultPrefix \o <<"/">> \o d \o <<"/", "c">> : d \in DeviceNames}

RECURSIVE splitFrom(_, _, _)
splitFrom(rest, parts, part) ==
    IF rest = << >> THEN Append(parts, part)
    ELSE IF Head(rest) = "/" THEN splitFrom(Tail(rest), Append(parts, part), << >>)
    ELSE splitFrom(Tail(rest), parts, Append(part, Head(rest)))

\* topic.split('/')
split(topic) == splitFrom(topic, << >>, << >>)

\* topicParts[2], the empty string standing for undefined
deviceIdOf(topic) ==
    LET topicParts == split(topic)
    IN IF Len(topicParts) >= 3 THEN topicParts[3] ELSE << >>

\* message bodies: not JSON, the JSON texts null and 5, and JSON objects
Bodies ==
    {[json |-> "invalid"], [json |-> "null"], [json |-> "number"],
     [json |-> "object", value |-> pZone1],
     [json |-> "object", value |-> pUnknown]}

\* JSON.parse(message.toString()) throws
ParseThrows(body) == body.json = "invalid"

\* this._determineMessageType(payload) throws: payload.alert of null
ClassifyThrows(body) == body.json = "null"

\* this._determineMessageType(payload) of a decoded body; a number has none of
\* the properties read
messageTypeOf(body) ==
    IF body.json = "object" THEN determineMessageType(body.value) ELSE "unknown"

\* JSON.stringify(message)
JSONstringify(message) == [json |-> "object", value |-> message]

\* the messages publish is called with
CommandMessages == {[command |-> "VALVE_OFF", timestamp |-> "now"]}

\* error.message of the errors the client reports, as the fragments it is made
\* of; the empty sequence is an error without a message
ClientErrors ==
    {<<"Error: ", "Keepalive timeout">>, <<"connect ECONNREFUSED">>, << >>}

\* error.message && error.message.includes('Keepalive timeout')
IsKeepaliveTimeout(message) ==
    \E i \in 1..Len(message) : message[i] = "Keepalive timeout"

\* the events the service emits
telemetryEvent(topic, body, now) ==
    [event |-> "telemetry", deviceId |-> deviceIdOf(topic), topic |-> topic,
     messageType |-> messageTypeOf(body), payload |-> body, receivedAt |-> now,
     error |-> << >>]

errorEvent(message) ==
    [event |-> "error", deviceId |-> << >>, topic |-> << >>, messageType |-> "",
     payload |-> [json |-> "none"], receivedAt |-> 0, error |-> message]

IsConnectedAfterConnectOnly(event, was) == event = "connect" \/ was

\* this.isConnected after the handler of a lifecycle event of the client
IsConnectedAfter(event, was) ==
    IF event = "connect" THEN TRUE
    ELSE IF event \in {"reconnect", "disconnect", "offline", "close", "end",
                       "keepalive"}
         THEN FALSE
    ELSE was

subscribeToTopicsNever(topicPrefix) == Null

\* _subscribeToTopics(): the subscribe request handed to the client
subscribeToTopics(topicPrefix) ==
    Some([topic |-> telemetryTopic(topicPrefix), qos |-> 1])

ErrorEmittedAlways(listeners) == TRUE

\* this.listenerCount('error') > 0
ErrorEmitted(listeners) == listeners > 0

\* connect(): returns when a setting is missing, else creates the client, which
\* starts connecting, and attaches the handlers
connect(configured) ==
    /\ mqtt.link = "none"
    /\ mqtt' = [mqtt EXCEPT !.link = IF configured THEN "connecting"
                                     ELSE "unconfigured"]
    /\ UNCHANGED <<devices, alerts, sensor_readings, tasks, sent, faults, env,
                   wsVars, emitted, apiVars>>

\* mqttService.on('error', listener)
addErrorListener ==
    /\ mqtt.listeners = 0
    /\ mqtt' = [mqtt EXCEPT !.listeners = 1]
    /\ UNCHANGED <<devices, alerts, sensor_readings, tasks, sent, faults, env,
                   wsVars, emitted, apiVars>>

\* client.on('connect'): the broker accepted the connection, with a clean
\* session
onConnect ==
    /\ mqtt.link = "connecting"
    /\ mqtt' = [mqtt EXCEPT !.link = "connected",
                            !.isConnected = IsConnectedAfter("connect", @),
                            !.last = "connect",
                            !.subscribed = FALSE,
                            !.pending = subscribeToTopics(mqtt.topicPrefix)]
    /\ UNCHANGED <<devices, alerts, sensor_readings, tasks, sent, faults, env,
                   wsVars, emitted, apiVars>>

\* the broker grants the subscription; the callback of client.subscribe logs it
suback ==
    /\ mqtt.link = "connected"
    /\ mqtt.pending # Null
    /\ mqtt' = [mqtt EXCEPT !.subscribed = TRUE, !.pending = Null]
    /\ UNCHANGED <<devices, alerts, sensor_readings, tasks, sent, faults, env,
                   wsVars, emitted, apiVars>>

\* client.on('reconnect'): the reconnect timer of the client fired
onReconnect ==
    /\ mqtt.link = "offline"
    /\ mqtt' = [mqtt EXCEPT !.link = "connecting",
                            !.isConnected = IsConnectedAfter("reconnect", @),
                            !.last = "reconnect"]
    /\ UNCHANGED <<devices, alerts, sensor_readings, tasks, sent, faults, env,
                   wsVars, emitted, apiVars>>

\* client.on('disconnect'): the broker sent a DISCONNECT packet
onDisconnect ==
    /\ mqtt.link = "connected"
    /\ mqtt' = [mqtt EXCEPT !.isConnected = IsConnectedAfter("disconnect", @),
                            !.last = "disconnect"]
    /\ UNCHANGED <<devices, alerts, sensor_readings, tasks, sent, faults, env,
                   wsVars, emitted, apiVars>>

\* client.on('error'): a keepalive timeout marks the service not connected and
\* is not passed on; any other error is emitted if there is a listener. An
\* 'error' event emitted to no listener is thrown by the emitter (unhandled).
onError(message) ==
    /\ mqtt.link \in {"connecting", "connected", "offline"}
    /\ IsKeepaliveTimeout(message) => mqtt.link = "connected"
    /\ mqtt.errors < ErrorLimit
    /\ IF IsKeepaliveTimeout(message)
       THEN /\ mqtt' = [mqtt EXCEPT !.isConnected = IsConnectedAfter("keepalive", @),
                                    !.last = "keepalive",
                                    !.errors = @ + 1, !.reported = message]
            /\ emitted' = emitted
       ELSE IF ErrorEmitted(mqtt.listeners)
       THEN /\ mqtt' = [mqtt EXCEPT !.errors = @ + 1, !.reported = message,
                                    !.unhandled = @ \/ mqtt.listeners = 0]
            /\ emitted' = IF mqtt.listeners > 0
                          THEN Append(emitted, errorEvent(message))
                          ELSE emitted
       ELSE /\ mqtt' = [mqtt EXCEPT !.errors = @ + 1, !.reported = message]
            /\ emitted' = emitted
    /\ UNCHANGED <<devices, alerts, sensor_readings, tasks, sent, faults, env,
                   wsVars, apiVars>>

\* client.on('offline'): the client went offline after the connection closed
onOffline ==
    /\ mqtt.link = "offline"
    /\ mqtt' = [mqtt EXCEPT !.isConnected = IsConnectedAfter("offline", @),
                            !.last = "offline"]
    /\ UNCHANGED <<devices, alerts, sensor_readings, tasks, sent, faults, env,
                   wsVars, emitted, apiVars>>

\* client.on('close'): the connection, or the attempt to connect, ended; the
\* session and the subscribe request in flight are gone
onClose ==
    /\ mqtt.link \in {"connecting", "connected", "ending"}
    /\ mqtt' = [mqtt EXCEPT !.link = IF @ = "ending" THEN "ending" ELSE "offline",
                            !.isConnected = IsConnectedAfter("close", @),
                            !.last = "close",
                            !.subscribed = FALSE,
                            !.pending = Null,
                            !.session = 1]
    /\ UNCHANGED <<devices, alerts, sensor_readings, tasks, sent, faults, env,
                   wsVars, emitted, apiVars>>

\* client.on('end'): client.end() has completed
onEnd ==
    /\ mqtt.link = "ending"
    /\ mqtt' = [mqtt EXCEPT !.link = "ended",
                            !.isConnected = IsConnectedAfter("end", @),
                            !.last = "end"]
    /\ UNCHANGED <<devices, alerts, sensor_readings, tasks, sent, faults, env,
                   wsVars, emitted, apiVars>>

\* client.on('message'): _handleMessage(topic, message) for a message of a
\* device on the subscribed topic
mqttHandleMessage(device, body) ==
    /\ mqtt.link = "connected"
    /\ mqtt.subscribed
    /\ mqtt.messages < MessageLimit
    /\ LET topic == TopicOf(mqtt.topicPrefix, device)
       IN /\ mqtt' = [mqtt EXCEPT !.messages = @ + 1,
                                  !.inbound = <<topic, body>>]
          /\ emitted' = IF ParseThrows(body) \/ ClassifyThrows(body)
                        THEN emitted
                        ELSE Append(emitted, telemetryEvent(topic, body, mqtt.session))
    /\ UNCHANGED <<devices, alerts, sensor_readings, tasks, sent, faults, env,
                   wsVars, apiVars>>

AfterPublishUnconnected(service, topic, message) ==
    [service EXCEPT
        !.published = Append(@, [topic |-> topic,
                                 payload |-> JSONstringify(message),
                                 qos |-> 1]),
        !.returns = Append(@, service.isConnected)]

\* the service after publish(topic, message), the value returned last in
\* returns
AfterPublish(service, topic, message) ==
    IF ~service.isConnected
    THEN [service EXCEPT !.returns = Append(@, FALSE)]
    ELSE [service EXCEPT
             !.published = Append(@, [topic |-> topic,
                                      payload |-> JSONstringify(message),
                                      qos |-> 1]),
             !.returns = Append(@, TRUE)]

\* a call of publish(topic, message)
publish(topic, message) ==
    /\ Len(mqtt.returns) < MaxPublishes
    /\ mqtt' = AfterPublish(mqtt, topic, message)
    /\ UNCHANGED <<devices, alerts, sensor_readings, tasks, sent, faults, env,
                   wsVars, emitted, apiVars>>

\* disconnect(): if (this.client) this.client.end(true, ...)
disconnect ==
    /\ mqtt.link \in {"connecting", "connected", "offline"}
    /\ mqtt' = [mqtt EXCEPT !.link = "ending", !.subscribed = FALSE,
                            !.pending = Null]
    /\ UNCHANGED <<devices, alerts, sensor_readings, tasks, sent, faults, env,
                   wsVars, emitted, apiVars>>

\* the service constructed with any of the prefixes, nothing else running
InitService ==
    /\ InitApi
    /\ devices = InitialDevices
    /\ alerts = << >>
    /\ sensor_readings = << >>
    /\ tasks = << >>
    /\ sent = << >>
    /\ faults = 0
    /\ InitWebSocket
    /\ mqtt \in {Constructed(p) : p \in Prefixes}
    /\ emitted = << >>

InitMqtt ==
    /\ InitService
    /\ env = [run |-> "broker"]

InitReconnection ==
    /\ InitService
    /\ env = [run |-> "reconnection"]

NextMqtt ==
    \/ \E configured \in BOOLEAN : connect(configured)
    \/ addErrorListener
    \/ onConnect
    \/ suback
    \/ onReconnect
    \/ onDisconnect
    \/ \E e \in ClientErrors : onError(e)
    \/ onOffline
    \/ onClose
    \/ onEnd
    \/ \E d \in DeviceNames, b \in Bodies : mqttHandleMessage(d, b)
    \/ \E t \in CommandTopics, m \in CommandMessages : publish(t, m)
    \/ disconnect

MqttSpec == InitMqtt /\ [][NextMqtt]_vars

\* the client retries every reconnectPeriod, an attempt that can succeed
\* infinitely often does succeed, and so does a subscribe request
FairMqttSpec ==
    /\ InitReconnection /\ [][NextMqtt]_vars
    /\ WF_vars(onReconnect) /\ SF_vars(onConnect) /\ SF_vars(suback)

----------------------------------------------------------------------------
(* Errors of the broker client. *)

\* the client reports an error in the step
ErrorStep == mqtt'.errors = mqtt.errors + 1

\* the error events emitted so far
ErrorEvents == {i \in 1..Len(emitted) : emitted[i].event = "error"}

\* C16: a client error whose message contains the keepalive-timeout marker
\* leaves the service not connected and emits nothing; any other client error
\* is emitted as one error event if a listener is registered and emits nothing
\* otherwise; no error event is ever emitted to no listener.
C16_ClientErrorsNeverUnhandled ==
    /\ [][ErrorStep =>
            LET message == mqtt'.reported
            IN IF IsKeepaliveTimeout(message)
               THEN ~mqtt'.isConnected /\ emitted' = emitted
               ELSE /\ mqtt'.isConnected = mqtt.isConnected
                    /\ emitted' = IF mqtt.listeners > 0
                                  THEN Append(emitted,
                                         [event |-> "error", deviceId |-> << >>,
                                          topic |-> << >>, messageType |-> "",
                                          payload |-> [json |-> "none"],
                                          receivedAt |-> 0, error |-> message])
                                  ELSE emitted]_vars
    /\ [](~mqtt.unhandled)
    /\ [][ErrorEvents' # ErrorEvents => ErrorStep]_vars

\* with a listener registered, a refused connection was emitted as an error
\* event and the keepalive timeout that followed was not
C16_Witness ==
    /\ mqtt.listeners = 1
    /\ mqtt.errors = 2
    /\ mqtt.last = "keepalive" /\ ~mqtt.isConnected
    /\ IsKeepaliveTimeout(mqtt.reported)
    /\ Cardinality(ErrorEvents) = 1
    /\ \E i \in ErrorEvents : emitted[i].error = <<"connect ECONNREFUSED">>

----------------------------------------------------------------------------
(* publish and the connection state. *)

\* publish is called in the step
PublishStep == Len(mqtt'.returns) = Len(mqtt.returns) + 1

\* C18: publish returns false and hands nothing to the client when no connect
\* event has occurred or the most recent lifecycle event is reconnect,
\* disconnect, offline, close, end or a keepalive-timeout error; it returns
\* true, handing the client exactly one packet at QoS 1, when the most recent
\* lifecycle event is connect.
C18_PublishOnlyWhileConnected ==
    /\ [][PublishStep =>
            LET returned == mqtt'.returns[Len(mqtt'.returns)]
            IN /\ returned = (mqtt.last = "connect")
               /\ mqtt.last \in {"none", "reconnect", "disconnect", "offline",
                                 "close", "end", "keepalive"}
                    => mqtt'.published = mqtt.published
               /\ mqtt.last = "connect"
                    => /\ Len(mqtt'.published) = Len(mqtt.published) + 1
                       /\ SubSeq(mqtt'.published, 1, Len(mqtt.published)) = mqtt.published
                       /\ mqtt'.published[Len(mqtt'.published)].qos = 1]_vars
    /\ [][mqtt'.published # mqtt.published => PublishStep]_vars

\* a publish after a reconnection was refused, nothing handed to the client
C18_Witness ==
    /\ mqtt.returns = <<FALSE>>
    /\ mqtt.published = << >>
    /\ mqtt.last = "reconnect"
    /\ mqtt.session = 1

----------------------------------------------------------------------------
(* Inbound messages. *)

\* a message of the broker is handled in the step
MessageStep == mqtt'.messages = mqtt.messages + 1

\* the segment of the topic that the + of the subscription matched
WildcardSegment(topic, topicPrefix) == split(topic)[Len(split(topicPrefix)) + 1]

\* C19: a message whose payload is not JSON or is JSON null emits no event; every
\* other message emits exactly one telemetry event, whose deviceId is the
\* wildcard segment of the message's topic.
C19_OneEventWithWildcardSegment ==
    [][MessageStep =>
         LET topic == mqtt'.inbound[1]
             body == mqtt'.inbound[2]
         IN IF body.json \in {"invalid", "null"}
            THEN emitted' = emitted
            ELSE /\ Len(emitted') = Len(emitted) + 1
                 /\ SubSeq(emitted', 1, Len(emitted)) = emitted
                 /\ emitted'[Len(emitted')].event = "telemetry"
                 /\ emitted'[Len(emitted')].deviceId =
                        WildcardSegment(topic, mqtt.topicPrefix)]_vars

----------------------------------------------------------------------------
(* Reconnection. *)

\* the client fires connect in the step
ConnectStep == mqtt.link = "connecting" /\ mqtt'.link = "connected"

\* the connection is lost and the client is waiting to reconnect
Lost == mqtt.link = "offline"

\* disconnect() was called
Over == mqtt.link \in {"ending", "ended"}

----------------------------------------------------------------------------
(* The device_command listener of server.js: commands of clients are       *)
(* checked against the devices table and published to the device.          *)

\* `apn/device/${deviceId}/commands`, the device identifier written as one
\* character
commandTopic(deviceId) == DefaultPrefix \o <<"/", deviceId, "/", "c">>

\* sendErrorToUser(userId, code, message): the connections after the call
sendErrorToUser(connections, userId, code) ==
    forEachSend(connections, userConnectionsOf(clients, userId), {},
                [type |-> "error", code |-> code])

\* websocketService.on('device_command', ...): the listener runs for the event
\* and suspends at the device lookup
deviceCommandListener ==
    /\ Len(commandTasks) < Len(commands)
    /\ LET data == commands[Len(commandTasks) + 1]
       IN commandTasks' = Append(commandTasks,
              [userId |-> data.userId, deviceId |-> data.deviceId,
               command |-> data.command, pc |-> "lookup", outcome |-> "",
               code |-> ""])
    /\ UNCHANGED <<devices, alerts, sensor_readings, tasks, sent, faults, env,
                   wsVars, mqVars, notifications, routeVars>>

CommandVerdictOwnerUnchecked(outcome, row, userId) ==
    IF outcome = "throw" THEN "INTERNAL_ERROR"
    ELSE IF outcome = "error" \/ row = Null THEN "DEVICE_NOT_FOUND"
    ELSE IF ~row[1].is_active THEN "DEVICE_INACTIVE"
    ELSE "publish"

\* what the listener does once the lookup has settled: the code of the error
\* frame it sends, or publish
CommandVerdict(outcome, row, userId) ==
    IF outcome = "throw" THEN "INTERNAL_ERROR"
    ELSE IF outcome = "error" \/ row = Null THEN "DEVICE_NOT_FOUND"
    ELSE IF row[1].user_id # userId THEN "UNAUTHORIZED"
    ELSE IF ~row[1].is_active THEN "DEVICE_INACTIVE"
    ELSE "publish"

\* the lookup settles and the listener runs to its end: it sends an error
\* frame, or publishes and sends MQTT_ERROR if publish returned false
deviceCommandLookup(i, outcome) ==
    /\ i \in DOMAIN commandTasks
    /\ commandTasks[i].pc = "lookup"
    /\ Charge(outcome)
    /\ LET t == commandTasks[i]
           verdict == CommandVerdict(outcome, devices[t.deviceId], t.userId)
           code == IF verdict # "publish" THEN verdict
                   ELSE IF mqtt.isConnected THEN "" ELSE "MQTT_ERROR"
       IN /\ commandTasks' = [commandTasks EXCEPT
                 ![i] = [t EXCEPT !.pc = "done", !.outcome = outcome, !.code = code]]
          /\ mqtt' = IF verdict = "publish"
                     THEN AfterPublish(mqtt, commandTopic(t.deviceId),
                                       [command |-> t.command, timestamp |-> "now"])
                     ELSE mqtt
          /\ conns' = IF code = "" THEN conns
                      ELSE sendErrorToUser(conns, t.userId, code)
    /\ UNCHANGED <<devices, alerts, sensor_readings, tasks, sent, env,
                   clients, calls, commands, wss, emitted, notifications,
                   routeVars>>

\* clients of u1 and u2 connect and send a command while the broker connection
\* comes and goes
InitCommands ==
    /\ InitTables
    /\ env = [run |-> "commands"]

NextCommands ==
    \/ \E c \in ConnIds, token \in TokenPool : handleConnection(c, token)
    \/ \E c \in ConnIds, o \in Outcomes : handleConnectionGetUser(c, o)
    \/ \E c \in ConnIds, o \in Outcomes : handleConnectionLookup(c, o)
    \/ \E c \in ConnIds : socketCloses(c)
    \/ \E c \in ConnIds, m \in FramePool : handleClientMessage(c, m)
    \/ deviceCommandListener
    \/ \E i \in DOMAIN commandTasks, o \in Outcomes : deviceCommandLookup(i, o)
    \/ connect(TRUE)
    \/ onConnect
    \/ onClose
    \/ onReconnect

CommandSpec == InitCommands /\ [][NextCommands]_vars

----------------------------------------------------------------------------
(* Commands reach only the requesting user's own active devices. *)

\* the lookup of command task i settles in the step
CommandSettles(i) == commandTasks[i].pc = "lookup" /\ commandTasks'[i].pc = "done"

\* the check that fails for user userId and the devices row, "" if none does
FailedCheck(row, userId) ==
    IF row = Null THEN "DEVICE_NOT_FOUND"
    ELSE IF row[1].user_id # userId THEN "UNAUTHORIZED"
    ELSE IF ~row[1].is_active THEN "DEVICE_INACTIVE"
    ELSE ""

\* every open registered connection of userId receives one error frame with
\* the code in the step and no other connection changes
OneErrorFrame(userId, code) ==
    \A c \in ConnIds :
        conns'[c] =
            IF /\ userId \in DOMAIN clients /\ c \in clients[userId]
               /\ conns[c].readyState = "open"
            THEN [conns[c] EXCEPT !.out = Append(@, [type |-> "error", code |-> code])]
            ELSE conns[c]

\* a packet is handed to the broker client only for a device that exists, is
\* owned by the requesting user and is active, on that device's command topic
PublishedOnlyForOwnActiveDevice(i) ==
    mqtt'.published # mqtt.published =>
        /\ FailedCheck(devices[commandTasks[i].deviceId], commandTasks[i].userId) = ""
        /\ mqtt'.published =
              Append(mqtt.published,
                     [topic |-> <<"a", "/", "d", "/", commandTasks[i].deviceId, "/", "c">>,
                      payload |-> [json |-> "object",
                                   value |-> [command |-> commandTasks[i].command,
                                              timestamp |-> "now"]],
                      qos |-> 1])

\* C21: a command is published only if, when the lookup settles, the device
\* exists, is owned by the requesting user and is active. When the lookup
\* returns a result and a check fails, nothing is published and each open
\* connection of the requesting user receives exactly one error frame
\* (DEVICE_NOT_FOUND, UNAUTHORIZED, DEVICE_INACTIVE, in that order of checks);
\* when the lookup returns an error the frame is DEVICE_NOT_FOUND and when it
\* throws INTERNAL_ERROR, with nothing published.
C21_CommandsOnlyToOwnActiveDevice ==
    /\ [][\A i \in DOMAIN commandTasks : CommandSettles(i) =>
            LET t == commandTasks[i]
                outcome == commandTasks'[i].outcome
                failed == FailedCheck(devices[t.deviceId], t.userId)
                code == IF outcome = "throw" THEN "INTERNAL_ERROR"
                        ELSE IF outcome = "error" THEN "DEVICE_NOT_FOUND"
                        ELSE failed
            IN /\ PublishedOnlyForOwnActiveDevice(i)
               /\ code # "" => (mqtt'.published = mqtt.published /\ OneErrorFrame(t.userId, code))]_vars
    /\ [][mqtt'.published # mqtt.published =>
            \E i \in DOMAIN commandTasks : CommandSettles(i)]_vars

\* with the broker connected, u1's command for the device of u2 was answered
\* with UNAUTHORIZED on u1's connection and nothing was published
C21_Witness ==
    /\ mqtt.isConnected /\ mqtt.published = << >>
    /\ Len(commandTasks) = 1
    /\ commandTasks[1].pc = "done" /\ commandTasks[1].userId = "u1"
    /\ commandTasks[1].deviceId = "d2" /\ commandTasks[1].outcome = "ok"
    /\ \E c \in ConnIds :
         /\ conns[c].userId = "u1" /\ conns[c].readyState = "open"
         /\ Len(conns[c].out) = 2
         /\ conns[c].out[2] = [type |-> "error", code |-> "UNAUTHORIZED"]

\* the claim as stated: whenever one of the three checks fails, the frame with
\* the code of that check is sent
C21_AsStated ==
    [][\A i \in DOMAIN commandTasks : CommandSettles(i) =>
         LET t == commandTasks[i]
             failed == FailedCheck(devices[t.deviceId], t.userId)
         IN /\ PublishedOnlyForOwnActiveDevice(i)
            /\ failed # "" => (mqtt'.published = mqtt.published /\ OneErrorFrame(t.userId, failed))]_vars

----------------------------------------------------------------------------
(* Order of processing. *)

\* C22: telemetry events are processed in receipt order: the calls of
\* sendToUser for one user are in the order in which their events were received,
\* and so are the rows stored for one device in alerts and in sensor_readings.
C22_ProcessedInReceiptOrder ==
    /\ \A j, k \in DOMAIN sent :
          (j < k /\ sent[j].userId = sent[k].userId)
              => sent[j].data.receivedAt <= sent[k].data.receivedAt
    /\ \A j, k \in DOMAIN alerts :
          (j < k /\ alerts[j].device_id = alerts[k].device_id)
              => alerts[j].received_at <= alerts[k].received_at
    /\ \A j, k \in DOMAIN sensor_readings :
          (j < k /\ sensor_readings[j].device_id = sensor_readings[k].device_id)
              => sensor_readings[j].received_at <= sensor_readings[k].received_at

----------------------------------------------------------------------------
(* Notification of alerts. *)

\* the calls of sendPushNotificationToUser made for alert row k
Dispatches(k) ==
    {n \in DOMAIN notifications :
        notifications[n].userId = alerts[k].user_id /\ notifications[n].alert = k}

\* C23: once the handling of a telemetry event has ended, every Alert row that
\* it created (by the alert handler or by the water-zone detection) has had one
\* notification dispatched to the owner of the device.
C23_AlertCreationIsNotified ==
    \A i \in DOMAIN tasks :
        tasks[i].pc = "done" =>
            \A k \in DOMAIN alerts :
                alerts[k].received_at = i => Cardinality(Dispatches(k)) = 1

----------------------------------------------------------------------------
(* routes/telemetry.js: pairing and unpairing of devices.  A request is a   *)
(* task that is suspended at each awaited storage operation; status is 0    *)
(* until the response is sent.                                              *)

\* requests per behaviour when requests interleave
MaxRequests == 3
\* requests per behaviour when they are served one after another
MaxSeqRequests == 3

\* requests in progress at once when requests interleave
MaxOpenRequests == 2

\* the runs in which a request may start before the one before it has ended
Interleaving == env.run \in {"pairing", "registering", "grouping", "archiving"}

RequestLimit == IF Interleaving THEN MaxRequests ELSE MaxSeqRequests

\* requests that may be in progress at once
ConcurrentRequests == IF Interleaving THEN MaxOpenRequests ELSE 1

InProgress == {i \in DOMAIN requests : requests[i].pc # "done"}

\* the users that send requests: req.user.id set by authenticateToken
Requesters == {"u1", "u2"}

\* req.body.deviceId: a device of u1 that is inactive, one that is not paired,
\* or none
PairIds == {"d3", "d4", ""}

\* req.body.name, "" if not provided
PairNames == {"", "Tank"}

\* `Device ${deviceId.slice(-4)}`
DefaultName(deviceId) ==
    CASE deviceId = "d1" -> "Device d1"
      [] deviceId = "d2" -> "Device d2"
      [] deviceId = "d3" -> "Device d3"
      [] OTHER           -> "Device d4"

\* res.status(status).json({ message, device })
Respond(r, status, message, device) ==
    [r EXCEPT !.pc = "done", !.status = status, !.message = message,
              !.device = device]

\* the catch of a route: res.status(500)
InternalError(r) == Respond(r, 500, "Internal server error", Null)

\* POST /device/pair: 400 without a device id, else the handler suspends at the
\* lookup of the device
pairDevice(userId, deviceId, name) ==
    /\ Len(requests) < RequestLimit
    /\ Cardinality(InProgress) < ConcurrentRequests
    /\ LET r == [route |-> "pair", userId |-> userId, deviceId |-> deviceId,
                 name |-> name, pc |-> "check", status |-> 0, message |-> "",
                 device |-> Null, existing |-> Null, updateData |-> {},
                 outcome |-> ""]
       IN requests' = Append(requests,
              IF deviceId = "" THEN Respond(r, 400, "Missing required field", Null)
              ELSE r)
    /\ UNCHANGED <<devices, alerts, sensor_readings, tasks, sent, faults, env,
                   wsVars, mqVars, commandTasks, notifications, push_tokens,
                   sockets, archived_alerts>>

OwnedByAnyone(row, userId) == TRUE

\* existingDevice.user_id === req.user.id
OwnedBy(row, userId) == row.user_id = userId

UpdateDataAlways(row, name) == {"name", "is_active"}

\* updateData: the columns the owner's request changes
UpdateData(row, name) ==
    (IF name # "" /\ name # row.name THEN {"name"} ELSE {})
        \cup (IF ~row.is_active THEN {"is_active"} ELSE {})

\* the lookup settles: the device is paired to the user (update it or answer
\* with it as it is), paired to another user, or not paired
pairCheck(i, outcome) ==
    /\ i \in DOMAIN requests
    /\ requests[i].route = "pair" /\ requests[i].pc = "check"
    /\ Charge(outcome)
    /\ LET r == [requests[i] EXCEPT !.outcome = outcome]
           existingDevice == devices[r.deviceId]
       IN requests' = [requests EXCEPT ![i] =
              IF outcome # "ok" THEN InternalError(r)
              ELSE IF existingDevice = Null THEN [r EXCEPT !.pc = "insert"]
              ELSE IF ~OwnedBy(existingDevice[1], r.userId)
                   THEN Respond(r, 400, "Device unavailable", Null)
              ELSE IF UpdateData(existingDevice[1], r.name) # {}
                   THEN [r EXCEPT !.pc = "update", !.existing = existingDevice,
                                  !.updateData = UpdateData(existingDevice[1], r.name)]
              ELSE Respond(r, 200, "Device already paired to your account",
                           existingDevice)]
    /\ UNCHANGED <<devices, alerts, sensor_readings, tasks, sent, env,
                   wsVars, mqVars, commandTasks, notifications, push_tokens,
                   sockets, archived_alerts>>

\* .update(updateData).eq('id', existingDevice.id): the row with the columns
\* of updateData set
Updated(row, r) ==
    [row EXCEPT !.name = IF "name" \in r.updateData THEN r.name ELSE @,
                !.is_active = IF "is_active" \in r.updateData THEN TRUE ELSE @]

\* the update settles; .single() is an error when no row has the id any more
pairUpdate(i, outcome) ==
    /\ i \in DOMAIN requests
    /\ requests[i].route = "pair" /\ requests[i].pc = "update"
    /\ Charge(outcome)
    /\ LET r == [requests[i] EXCEPT !.outcome = outcome]
           row == devices[r.deviceId]
           found == row # Null /\ row[1].id = r.existing[1].id
       IN IF outcome = "ok" /\ found
          THEN /\ devices' = [devices EXCEPT ![r.deviceId] = Some(Updated(row[1], r))]
               /\ requests' = [requests EXCEPT ![i] =
                     Respond(r, 200, "Device already paired - updated successfully",
                             Some(Updated(row[1], r)))]
          ELSE /\ devices' = devices
               /\ requests' = [requests EXCEPT ![i] = InternalError(r)]
    /\ UNCHANGED <<alerts, sensor_readings, tasks, sent, env,
                   wsVars, mqVars, commandTasks, notifications, push_tokens,
                   sockets, archived_alerts>>

UniqueViolationNever(row) == FALSE

\* device_id VARCHAR(100) UNIQUE: an insert for an identifier that has a row
\* is refused
UniqueViolation(row) == row # Null

\* the insert settles
pairInsert(i, outcome) ==
    /\ i \in DOMAIN requests
    /\ requests[i].route = "pair" /\ requests[i].pc = "insert"
    /\ Charge(outcome)
    /\ LET r == [requests[i] EXCEPT !.outcome = outcome]
           device == [id |-> i, user_id |-> r.userId, is_active |-> TRUE,
                      name |-> IF r.name # "" THEN r.name ELSE DefaultName(r.deviceId),
                      paired_at |-> i]
       IN IF outcome = "ok" /\ ~UniqueViolation(devices[r.deviceId])
          THEN /\ devices' = [devices EXCEPT ![r.deviceId] = Some(device)]
               /\ requests' = [requests EXCEPT ![i] =
                     Respond(r, 201, "Device paired successfully", Some(device))]
          ELSE /\ devices' = devices
               /\ requests' = [requests EXCEPT ![i] = InternalError(r)]
    /\ UNCHANGED <<alerts, sensor_readings, tasks, sent, env,
                   wsVars, mqVars, commandTasks, notifications, push_tokens,
                   sockets, archived_alerts>>

\* DELETE /device/:deviceId: the handler suspends at the delete
unpairDevice(userId, deviceId) ==
    /\ Len(requests) < RequestLimit
    /\ Cardinality(InProgress) < ConcurrentRequests
    /\ deviceId # ""
    /\ requests' = Append(requests,
           [route |-> "unpair", userId |-> userId, deviceId |-> deviceId,
            name |-> "", pc |-> "delete", status |-> 0, message |-> "",
            device |-> Null, existing |-> Null, updateData |-> {},
            outcome |-> ""])
    /\ UNCHANGED <<devices, alerts, sensor_readings, tasks, sent, faults, env,
                   wsVars, mqVars, commandTasks, notifications, push_tokens,
                   sockets, archived_alerts>>

\* the delete of the user's row of the device settles; .single() is the error
\* PGRST116 when no row was deleted
unpairDelete(i, outcome) ==
    /\ i \in DOMAIN requests
    /\ requests[i].route = "unpair" /\ requests[i].pc = "delete"
    /\ Charge(outcome)
    /\ LET r == [requests[i] EXCEPT !.outcome = outcome]
           row == devices[r.deviceId]
       IN IF outcome # "ok"
          THEN /\ devices' = devices
               /\ requests' = [requests EXCEPT ![i] = InternalError(r)]
          ELSE IF row # Null /\ row[1].user_id = r.userId
          THEN /\ devices' = [devices EXCEPT ![r.deviceId] = Null]
               /\ requests' = [requests EXCEPT ![i] =
                     Respond(r, 200, "Device unpaired successfully", Null)]
          ELSE /\ devices' = devices
               /\ requests' = [requests EXCEPT ![i] = Respond(r, 404, "Not found", Null)]
    /\ UNCHANGED <<alerts, sensor_readings, tasks, sent, env,
                   wsVars, mqVars, commandTasks, notifications, push_tokens,
                   sockets, archived_alerts>>

\* two users pair and unpair the same devices, their requests interleaving
InitPairing ==
    /\ InitTables
    /\ env = [run |-> "pairing"]

NextPairing ==
    \/ \E u \in Requesters, d \in PairIds, n \in PairNames : pairDevice(u, d, n)
    \/ \E i \in DOMAIN requests, o \in Outcomes : pairCheck(i, o)
    \/ \E i \in DOMAIN requests, o \in Outcomes : pairUpdate(i, o)
    \/ \E i \in DOMAIN requests, o \in Outcomes : pairInsert(i, o)
    \/ \E u \in Requesters, d \in PairIds : unpairDevice(u, d)
    \/ \E i \in DOMAIN requests, o \in Outcomes : unpairDelete(i, o)

PairingSpec == InitPairing /\ [][NextPairing]_vars

\* the same, one request at a time
InitPairingSeq ==
    /\ InitTables
    /\ env = [run |-> "pairing one by one"]

PairingSeqSpec == InitPairingSeq /\ [][NextPairing]_vars

\* a step of the pairing request i
PairStep(i) ==
    /\ i \in DOMAIN requests
    /\ requests[i].route = "pair"
    /\ requests'[i] # requests[i]

\* the device of request i is paired to another user
OwnedByOther(i) ==
    /\ devices[requests[i].deviceId] # Null
    /\ devices[requests[i].deviceId][1].user_id # requests[i].userId

Unavailable(r) == r.status = 400 /\ r.message = "Device unavailable"

\* C24, amended: no step of a pairing request for a device that is paired to
\* another user changes the devices table, so the row keeps its owner, name,
\* active flag and paired-at and no row is added; the request is rejected, with
\* the device-unavailable response when its lookup returns the row and with the
\* internal-error response otherwise.
C24_OtherUsersDeviceIsLeftAlone ==
    [][\A i \in DOMAIN requests :
          PairStep(i) /\ OwnedByOther(i) =>
              /\ devices' = devices
              /\ requests'[i].pc = "done"
              /\ requests'[i].status \in {400, 500}
              /\ (requests[i].pc = "check" /\ requests'[i].outcome = "ok"
                     => Unavailable(requests'[i]))]_vars

\* u2 asked to pair d3, was told it is unavailable, and d3 is u1's row as before
C24_Witness ==
    \E i \in DOMAIN requests :
        /\ requests[i].route = "pair" /\ Unavailable(requests[i])
        /\ requests[i].userId = "u2" /\ requests[i].deviceId = "d3"
        /\ devices["d3"] = InitialDevices["d3"]

\* C24 as stated: every pairing request for a device that is paired to another
\* user gets the device-unavailable response
C24_AsStated ==
    [][\A i \in DOMAIN requests :
          PairStep(i) /\ OwnedByOther(i) =>
              devices' = devices /\ Unavailable(requests'[i])]_vars

\* the pairing requests q and r ask the same thing
SameRequest(q, r) ==
    /\ q.route = "pair" /\ r.route = "pair"
    /\ q.userId = r.userId /\ q.deviceId = r.deviceId /\ q.name = r.name

Succeeded(r) == r.status \in {200, 201}

\* request i succeeded and the requests after it, up to the latest one, repeat it
Repeats(i) ==
    /\ i \in DOMAIN requests /\ i < Len(requests)
    /\ Succeeded(requests[i])
    /\ \A k \in i..Len(requests) : SameRequest(requests[k], requests[i])

\* the device request i asks for is paired to its user
OwnedByRequester(i) ==
    /\ devices[requests[i].deviceId] # Null
    /\ devices[requests[i].deviceId][1].user_id = requests[i].userId

\* C25: pairing by the owner is idempotent.  While a successful request is
\* repeated, the device's row stays the one the first request returned, the
\* repetition never gets to a write and, unless the lookup fails, it answers
\* with that row; and a pairing request of the owner writes only when the
\* requested name differs from the stored one or the stored row is inactive,
\* and otherwise answers with the stored row.
C25_OwnerPairingIsIdempotent ==
    /\ [](\A i \in DOMAIN requests :
            Repeats(i) =>
                LET r == requests[Len(requests)]
                IN /\ devices[r.deviceId] = requests[i].device
                   /\ r.pc \in {"check", "done"}
                   /\ r.pc = "done" =>
                         IF r.outcome = "ok"
                         THEN r.status = 200 /\ r.device = requests[i].device
                         ELSE r.status = 500)
    /\ [][\A i \in DOMAIN requests :
            PairStep(i) /\ OwnedByRequester(i) =>
                LET row == devices[requests[i].deviceId][1]
                    differs == requests[i].name # row.name \/ ~row.is_active
                IN /\ devices' # devices => differs
                   /\ (~differs /\ requests'[i].outcome = "ok") =>
                         /\ requests'[i].status = 200
                         /\ requests'[i].device = Some(row)
                         /\ devices' = devices]_vars

\* u1 renamed and reactivated d3, then sent the same request twice more and
\* got the same row back
C25_Witness ==
    /\ Len(requests) = 3
    /\ Repeats(1)
    /\ requests[1].message = "Device already paired - updated successfully"
    /\ requests[1].name = "Tank"
    /\ requests[2].status = 200 /\ requests[3].status = 200
    /\ requests[3].device = requests[1].device
    /\ devices["d3"] = requests[1].device

\* request i's insert settles
InsertSettles(i) ==
    /\ PairStep(i)
    /\ requests[i].pc = "insert"

\* C26: an identifier never gets a second row or a second owner.  An insert
\* for an identifier that has a row by then (a request of another user got in
\* between the lookup and the insert) fails, with the table as it was; an
\* insert that succeeds found no row and leaves the requester's row, the only
\* row it adds.
C26_OneRowPerIdentifier ==
    [][\A i \in DOMAIN requests :
          InsertSettles(i) =>
              LET d == requests[i].deviceId
              IN /\ devices[d] # Null =>
                       /\ devices' = devices
                       /\ requests'[i].status = 500
                 /\ requests'[i].status = 201 =>
                       /\ devices[d] = Null
                       /\ devices'[d] # Null
                       /\ devices'[d][1].user_id = requests[i].userId
                       /\ \A e \in DOMAIN devices : e # d => devices'[e] = devices[e]
                 /\ requests'[i].status \in {201, 500}]_vars

\* u1 and u2 both found d4 unpaired; one insert succeeded, the other failed
\* and d4 is the row of the one that succeeded
C26_Witness ==
    \E i, j \in DOMAIN requests :
        /\ requests[i].userId # requests[j].userId
        /\ requests[i].deviceId = "d4" /\ requests[j].deviceId = "d4"
        /\ requests[i].status = 201
        /\ requests[j].status = 500 /\ requests[j].outcome = "ok"
        /\ requests[j].route = "pair" /\ requests[j].existing = Null
        /\ devices["d4"] = requests[i].device

----------------------------------------------------------------------------
(* routes/notifications.js: registration of push tokens.  push_tokens maps  *)
(* a token string to its row, if any: UNIQUE(expo_push_token).              *)

\* req.body.expoPushToken: two well-formed tokens, one that is not an Expo
\* token, or none
PushTokens == {"T1", "T2"}

TokenInputs == PushTokens \cup {"bad", ""}

\* Expo.isExpoPushToken
isExpoPushToken(token) == token \in PushTokens

\* req.body.deviceId, "" if not provided
TokenDevices == {"", "phone"}

\* T1 is registered to u1
InitialTokens ==
    [t \in PushTokens |->
        IF t = "T1" THEN Some([id |-> 201, user_id |-> "u1", device_id |-> "tablet"])
        ELSE Null]

RegisterRequest(route, userId, token, deviceId, pc) ==
    [route |-> route, userId |-> userId, expoPushToken |-> token,
     deviceId |-> deviceId, pc |-> pc, status |-> 0, message |-> "",
     tokenId |-> 0, existing |-> Null, outcome |-> ""]

Answer(r, status, message, tokenId) ==
    [r EXCEPT !.pc = "done", !.status = status, !.message = message,
              !.tokenId = tokenId]

\* POST /register: 400 for a missing or malformed token, else the handler
\* suspends at the lookup of the token
registerToken(userId, token, deviceId) ==
    /\ Len(requests) < RequestLimit
    /\ Cardinality(InProgress) < ConcurrentRequests
    /\ LET r == RegisterRequest("register", userId, token, deviceId, "check")
       IN requests' = Append(requests,
              IF token = "" THEN Answer(r, 400, "Missing required field", 0)
              ELSE IF ~isExpoPushToken(token)
                   THEN Answer(r, 400, "Invalid token format", 0)
              ELSE r)
    /\ UNCHANGED <<devices, alerts, sensor_readings, tasks, sent, faults, env,
                   wsVars, mqVars, commandTasks, notifications, push_tokens,
                   sockets, archived_alerts>>

\* the lookup settles: update the row of the token or insert one
registerCheck(i, outcome) ==
    /\ i \in DOMAIN requests
    /\ requests[i].route = "register" /\ requests[i].pc = "check"
    /\ Charge(outcome)
    /\ LET r == [requests[i] EXCEPT !.outcome = outcome]
           existingToken == push_tokens[r.expoPushToken]
       IN requests' = [requests EXCEPT ![i] =
              IF outcome # "ok" THEN Answer(r, 500, "Internal server error", 0)
              ELSE IF existingToken # Null
                   THEN [r EXCEPT !.pc = "update", !.existing = existingToken]
              ELSE [r EXCEPT !.pc = "insert"]]
    /\ UNCHANGED <<devices, alerts, sensor_readings, tasks, sent, env,
                   wsVars, mqVars, commandTasks, notifications, push_tokens,
                   sockets, archived_alerts>>

\* .eq('id', existingToken.id): the update reaches the row that the lookup saw
UpdateMatches(row, existingToken) ==
    row # Null /\ row[1].id = existingToken[1].id

\* the update settles; an update that matches no row is not an error
registerUpdate(i, outcome) ==
    /\ i \in DOMAIN requests
    /\ requests[i].route = "register" /\ requests[i].pc = "update"
    /\ Charge(outcome)
    /\ LET r == [requests[i] EXCEPT !.outcome = outcome]
           row == push_tokens[r.expoPushToken]
       IN IF outcome # "ok"
          THEN /\ push_tokens' = push_tokens
               /\ requests' = [requests EXCEPT ![i] =
                     Answer(r, 500, "Internal server error", 0)]
          ELSE /\ push_tokens' =
                     IF UpdateMatches(row, r.existing)
                     THEN [push_tokens EXCEPT ![r.expoPushToken] =
                              Some([row[1] EXCEPT
                                  !.user_id = r.userId,
                                  !.device_id = IF r.deviceId # "" THEN r.deviceId
                                                ELSE r.existing[1].device_id])]
                     ELSE push_tokens
               /\ requests' = [requests EXCEPT ![i] =
                     Answer(r, 200, "Push token updated", r.existing[1].id)]
    /\ UNCHANGED <<devices, alerts, sensor_readings, tasks, sent, env,
                   wsVars, mqVars, commandTasks, notifications,
                   sockets, archived_alerts>>

\* the insert settles; UNIQUE(expo_push_token) refuses a second row
registerInsert(i, outcome) ==
    /\ i \in DOMAIN requests
    /\ requests[i].route = "register" /\ requests[i].pc = "insert"
    /\ Charge(outcome)
    /\ LET r == [requests[i] EXCEPT !.outcome = outcome]
       IN IF outcome = "ok" /\ push_tokens[r.expoPushToken] = Null
          THEN /\ push_tokens' = [push_tokens EXCEPT ![r.expoPushToken] =
                     Some([id |-> i, user_id |-> r.userId, device_id |-> r.deviceId])]
               /\ requests' = [requests EXCEPT ![i] =
                     Answer(r, 200, "Push token registered", i)]
          ELSE /\ push_tokens' = push_tokens
               /\ requests' = [requests EXCEPT ![i] =
                     Answer(r, 500, "Internal server error", 0)]
    /\ UNCHANGED <<devices, alerts, sensor_readings, tasks, sent, env,
                   wsVars, mqVars, commandTasks, notifications,
                   sockets, archived_alerts>>

\* DELETE /unregister: the handler suspends at the delete
unregisterToken(userId, token) ==
    /\ Len(requests) < RequestLimit
    /\ Cardinality(InProgress) < ConcurrentRequests
    /\ requests' = Append(requests,
           RegisterRequest("unregister", userId, token, "", "delete"))
    /\ UNCHANGED <<devices, alerts, sensor_readings, tasks, sent, faults, env,
                   wsVars, mqVars, commandTasks, notifications, push_tokens,
                   sockets, archived_alerts>>

\* the delete of the user's rows (of the token, when one is given) settles
unregisterDelete(i, outcome) ==
    /\ i \in DOMAIN requests
    /\ requests[i].route = "unregister" /\ requests[i].pc = "delete"
    /\ Charge(outcome)
    /\ LET r == [requests[i] EXCEPT !.outcome = outcome]
           deleted(t) == /\ push_tokens[t] # Null
                         /\ push_tokens[t][1].user_id = r.userId
                         /\ r.expoPushToken # "" => t = r.expoPushToken
       IN IF outcome # "ok"
          THEN /\ push_tokens' = push_tokens
               /\ requests' = [requests EXCEPT ![i] =
                     Answer(r, 500, "Internal server error", 0)]
          ELSE /\ push_tokens' = [t \in PushTokens |->
                     IF deleted(t) THEN Null ELSE push_tokens[t]]
               /\ requests' = [requests EXCEPT ![i] =
                     Answer(r, 200, "Push token(s) unregistered", 0)]
    /\ UNCHANGED <<devices, alerts, sensor_readings, tasks, sent, env,
                   wsVars, mqVars, commandTasks, notifications,
                   sockets, archived_alerts>>

InitRegistering ==
    /\ devices = InitialDevices
    /\ alerts = << >> /\ sensor_readings = << >>
    /\ tasks = << >> /\ sent = << >> /\ faults = 0
    /\ InitWebSocket
    /\ InitBroker
    /\ commandTasks = << >> /\ notifications = << >>
    /\ requests = << >> /\ sockets = << >> /\ archived_alerts = << >>
    /\ push_tokens = InitialTokens
    /\ env = [run |-> "registering"]

NextRegistering ==
    \/ \E u \in Requesters, t \in TokenInputs, d \in TokenDevices :
          registerToken(u, t, d)
    \/ \E i \in DOMAIN requests, o \in Outcomes : registerCheck(i, o)
    \/ \E i \in DOMAIN requests, o \in Outcomes : registerUpdate(i, o)
    \/ \E i \in DOMAIN requests, o \in Outcomes : registerInsert(i, o)
    \/ \E u \in Requesters, t \in PushTokens \cup {""} : unregisterToken(u, t)
    \/ \E i \in DOMAIN requests, o \in Outcomes : unregisterDelete(i, o)

RegisterSpec == InitRegistering /\ [][NextRegistering]_vars

\* request i, a registration, is answered
RegistrationAnswered(i) ==
    /\ i \in DOMAIN requests
    /\ requests[i].route = "register"
    /\ requests[i].pc # "done" /\ requests'[i].pc = "done"

\* C27: when a registration of token T by user U is answered with success, the
\* row of T is owned by U.
C27_RegisteredTokenIsOwned ==
    [][\A i \in DOMAIN requests :
          RegistrationAnswered(i) /\ requests'[i].status = 200 =>
              /\ push_tokens'[requests[i].expoPushToken] # Null
              /\ push_tokens'[requests[i].expoPushToken][1].user_id
                     = requests[i].userId]_vars

----------------------------------------------------------------------------
(* routes/telemetry.js: POST /sockets.  A row of sockets carries the rows of *)
(* socket_devices that refer to it.                                          *)

\* minutesSinceReading <= 5
RecentMinutes == 5

\* new Date() at a check of a reading, in minutes
Clock == {5, 6}

\* req.body.socketName, "" if not provided
SocketNames == {"", "S"}

\* req.body.sensorIds: ids of rows of devices
SensorIdSets == {{}, {101}, {102}}

\* the order in which a select returns the rows of devices
DeviceOrder == <<"d1", "d2", "d3", "d4">>

SocketRequest(userId, socketName, sensorIds) ==
    [route |-> "createSocket", userId |-> userId, socketName |-> socketName,
     sensorIds |-> sensorIds, pc |-> "sockets", status |-> 0, message |-> "",
     associatedDeviceIds |-> {}, unassociatedDevices |-> << >>, next |-> 1,
     hasAdditionalSensorData |-> FALSE, socketId |-> 0, outcome |-> ""]

Reply(r, status, message) ==
    [r EXCEPT !.pc = "done", !.status = status, !.message = message]

\* POST /sockets: 400 without a name, else the handler suspends at the select
\* of the user's sockets
createSocket(userId, socketName, sensorIds) ==
    /\ Len(requests) < RequestLimit
    /\ Cardinality(InProgress) < ConcurrentRequests
    /\ LET r == SocketRequest(userId, socketName, sensorIds)
       IN requests' = Append(requests,
              IF socketName = "" THEN Reply(r, 400, "Socket name is required")
              ELSE r)
    /\ UNCHANGED <<devices, alerts, sensor_readings, tasks, sent, faults, env,
                   wsVars, mqVars, commandTasks, notifications, push_tokens,
                   sockets, archived_alerts>>

\* the ids of the devices linked to the sockets of the user
AssociatedDeviceIds(userId) ==
    UNION {sockets[k].socket_devices :
              k \in {j \in DOMAIN sockets : sockets[j].user_id = userId}}

\* the select of the user's sockets settles
socketsSelect(i, outcome) ==
    /\ i \in DOMAIN requests
    /\ requests[i].route = "createSocket" /\ requests[i].pc = "sockets"
    /\ Charge(outcome)
    /\ LET r == [requests[i] EXCEPT !.outcome = outcome]
       IN requests' = [requests EXCEPT ![i] =
              IF outcome # "ok" THEN Reply(r, 500, "Internal server error")
              ELSE [r EXCEPT !.pc = "devices",
                             !.associatedDeviceIds = AssociatedDeviceIds(r.userId)]]
    /\ UNCHANGED <<devices, alerts, sensor_readings, tasks, sent, env,
                   wsVars, mqVars, commandTasks, notifications, push_tokens,
                   sockets, archived_alerts>>

\* userDevices.filter(device => !associatedDeviceIds.has(device.id)), of the
\* active devices of the user
UnassociatedDevices(userId, associated) ==
    LET unassociated(d) == /\ devices[d] # Null
                           /\ devices[d][1].user_id = userId
                           /\ devices[d][1].is_active
                           /\ devices[d][1].id \notin associated
    IN SelectSeq(DeviceOrder, unassociated)

\* !hasAdditionalSensorData && unassociatedDevices.length === 0
RejectedForSensors(r) ==
    ~r.hasAdditionalSensorData /\ Len(r.unassociatedDevices) = 0

\* after the loop over the unassociated devices: reject, or go on to validate
\* the sensor ids, or to the insert
AfterReadings(r) ==
    IF RejectedForSensors(r) THEN Reply(r, 400, "sensors are not set correctly")
    ELSE IF r.sensorIds # {} THEN [r EXCEPT !.pc = "validate"]
    ELSE [r EXCEPT !.pc = "insert"]

\* the select of the user's active devices settles
devicesSelect(i, outcome) ==
    /\ i \in DOMAIN requests
    /\ requests[i].route = "createSocket" /\ requests[i].pc = "devices"
    /\ Charge(outcome)
    /\ LET r == [requests[i] EXCEPT !.outcome = outcome]
           found == [r EXCEPT !.unassociatedDevices =
                        UnassociatedDevices(r.userId, r.associatedDeviceIds)]
       IN requests' = [requests EXCEPT ![i] =
              IF outcome # "ok" THEN Reply(r, 500, "Internal server error")
              ELSE IF Len(found.unassociatedDevices) = 0 THEN AfterReadings(found)
              ELSE [found EXCEPT !.pc = "reading"]]
    /\ UNCHANGED <<devices, alerts, sensor_readings, tasks, sent, env,
                   wsVars, mqVars, commandTasks, notifications, push_tokens,
                   sockets, archived_alerts>>

\* received_at of the latest reading of the device, if it has one
LatestReading(deviceId) ==
    LET times == {sensor_readings[k].received_at :
                     k \in {j \in DOMAIN sensor_readings :
                               sensor_readings[j].device_id = deviceId}}
    IN IF times = {} THEN Null
       ELSE Some(CHOOSE t \in times : \A u \in times : u <= t)

\* the select of the latest reading of the next unassociated device settles:
\* an error skips the device, a recent reading ends the loop
readingSelect(i, outcome, now) ==
    /\ i \in DOMAIN requests
    /\ requests[i].route = "createSocket" /\ requests[i].pc = "reading"
    /\ Charge(outcome)
    /\ LET r == [requests[i] EXCEPT !.outcome = outcome]
           latestReading == LatestReading(r.unassociatedDevices[r.next])
           recent == /\ outcome = "ok"
                     /\ latestReading # Null
                     /\ now - latestReading[1] <= RecentMinutes
           last == r.next = Len(r.unassociatedDevices)
       IN requests' = [requests EXCEPT ![i] =
              IF outcome = "throw" THEN Reply(r, 500, "Internal server error")
              ELSE IF recent
                   THEN AfterReadings([r EXCEPT !.hasAdditionalSensorData = TRUE])
              ELSE IF last THEN AfterReadings(r)
              ELSE [r EXCEPT !.next = @ + 1]]
    /\ UNCHANGED <<devices, alerts, sensor_readings, tasks, sent, env,
                   wsVars, mqVars, commandTasks, notifications, push_tokens,
                   sockets, archived_alerts>>

\* the ids of sensorIds that are devices of the user
UserDevicesForValidation(userId, sensorIds) ==
    {devices[d][1].id : d \in {e \in DOMAIN devices :
        /\ devices[e] # Null
        /\ devices[e][1].user_id = userId
        /\ devices[e][1].id \in sensorIds}}

\* the select of the user's devices among sensorIds settles
sensorIdsSelect(i, outcome) ==
    /\ i \in DOMAIN requests
    /\ requests[i].route = "createSocket" /\ requests[i].pc = "validate"
    /\ Charge(outcome)
    /\ LET r == [requests[i] EXCEPT !.outcome = outcome]
       IN requests' = [requests EXCEPT ![i] =
              IF outcome # "ok" THEN Reply(r, 500, "Internal server error")
              ELSE IF Cardinality(UserDevicesForValidation(r.userId, r.sensorIds))
                          # Cardinality(r.sensorIds)
                   THEN Reply(r, 400, "Some sensor IDs do not belong to your devices")
              ELSE [r EXCEPT !.pc = "insert"]]
    /\ UNCHANGED <<devices, alerts, sensor_readings, tasks, sent, env,
                   wsVars, mqVars, commandTasks, notifications, push_tokens,
                   sockets, archived_alerts>>

\* the insert of the socket settles
socketInsert(i, outcome) ==
    /\ i \in DOMAIN requests
    /\ requests[i].route = "createSocket" /\ requests[i].pc = "insert"
    /\ Charge(outcome)
    /\ LET r == [requests[i] EXCEPT !.outcome = outcome]
       IN IF outcome # "ok"
          THEN /\ sockets' = sockets
               /\ requests' = [requests EXCEPT ![i] =
                     Reply(r, 500, "Internal server error")]
          ELSE /\ sockets' = Append(sockets,
                     [id |-> i, user_id |-> r.userId, name |-> r.socketName,
                      socket_devices |-> {}])
               /\ requests' = [requests EXCEPT ![i] =
                     IF r.sensorIds # {} THEN [r EXCEPT !.pc = "link", !.socketId = i]
                     ELSE Reply([r EXCEPT !.socketId = i], 201,
                                "Socket created successfully")]
    /\ UNCHANGED <<devices, alerts, sensor_readings, tasks, sent, env,
                   wsVars, mqVars, commandTasks, notifications, push_tokens,
                   archived_alerts>>

\* the insert of the rows of socket_devices settles; on an error the handler
\* suspends at the delete of the socket
socketLink(i, outcome) ==
    /\ i \in DOMAIN requests
    /\ requests[i].route = "createSocket" /\ requests[i].pc = "link"
    /\ Charge(outcome)
    /\ LET r == [requests[i] EXCEPT !.outcome = outcome]
       IN IF outcome = "ok"
          THEN /\ sockets' = [k \in DOMAIN sockets |->
                     IF sockets[k].id = r.socketId
                     THEN [sockets[k] EXCEPT !.socket_devices = r.sensorIds]
                     ELSE sockets[k]]
               /\ requests' = [requests EXCEPT ![i] =
                     Reply(r, 201, "Socket created successfully")]
          ELSE /\ sockets' = sockets
               /\ requests' = [requests EXCEPT ![i] =
                     IF outcome = "throw" THEN Reply(r, 500, "Internal server error")
                     ELSE [r EXCEPT !.pc = "rollback"]]
    /\ UNCHANGED <<devices, alerts, sensor_readings, tasks, sent, env,
                   wsVars, mqVars, commandTasks, notifications, push_tokens,
                   archived_alerts>>

\* the delete of the socket settles, its result is not looked at; linkError
\* is thrown
socketRollback(i, outcome) ==
    /\ i \in DOMAIN requests
    /\ requests[i].route = "createSocket" /\ requests[i].pc = "rollback"
    /\ outcome \in {"ok", "error", "throw"}
    /\ LET r == [requests[i] EXCEPT !.outcome = outcome]
           kept(row) == row.id # r.socketId
       IN /\ sockets' = IF outcome = "ok" THEN SelectSeq(sockets, kept) ELSE sockets
          /\ requests' = [requests EXCEPT ![i] =
                Reply(r, 500, "Internal server error")]
    /\ UNCHANGED <<devices, alerts, sensor_readings, tasks, sent, faults, env,
                   wsVars, mqVars, commandTasks, notifications, push_tokens,
                   archived_alerts>>

\* d1 has sent one reading, at minute 0; no socket exists
InitGrouping ==
    /\ devices = InitialDevices
    /\ alerts = << >>
    /\ sensor_readings = <<sensorReading("d1", "u1", pZone1, 0)>>
    /\ tasks = << >> /\ sent = << >> /\ faults = 0
    /\ InitWebSocket
    /\ InitBroker
    /\ InitApi
    /\ env = [run |-> "grouping"]

NextGrouping ==
    \/ \E u \in Requesters, n \in SocketNames, ids \in SensorIdSets :
          createSocket(u, n, ids)
    \/ \E i \in DOMAIN requests, o \in Outcomes : socketsSelect(i, o)
    \/ \E i \in DOMAIN requests, o \in Outcomes : devicesSelect(i, o)
    \/ \E i \in DOMAIN requests, o \in Outcomes, now \in Clock :
          readingSelect(i, o, now)
    \/ \E i \in DOMAIN requests, o \in Outcomes : sensorIdsSelect(i, o)
    \/ \E i \in DOMAIN requests, o \in Outcomes : socketInsert(i, o)
    \/ \E i \in DOMAIN requests, o \in Outcomes : socketLink(i, o)
    \/ \E i \in DOMAIN requests, o \in {"ok", "error", "throw"} : socketRollback(i, o)

GroupingSpec == InitGrouping /\ [][NextGrouping]_vars

\* a step of the request i to create a socket
SocketStep(i) ==
    /\ i \in DOMAIN requests
    /\ requests[i].route = "createSocket"
    /\ requests'[i] # requests[i]

\* the user has an active device that no socket of the user is linked to and
\* whose latest reading is at most 5 minutes old at the time now
HasFreshFreeDevice(userId, now) ==
    \E k \in 1..Len(UnassociatedDevices(userId, AssociatedDeviceIds(userId))) :
        LET latest == LatestReading(
                UnassociatedDevices(userId, AssociatedDeviceIds(userId))[k])
        IN latest # Null /\ now - latest[1] <= RecentMinutes

\* C28: a request to create a socket by a user who has no active device that
\* is both linked to none of the user's sockets and has a reading of the last
\* five minutes inserts no row and is not answered with success.
C28_NoSocketWithoutFreshFreeDevice ==
    [][\A i \in DOMAIN requests :
          (SocketStep(i) /\ \A now \in Clock : ~HasFreshFreeDevice(requests[i].userId, now))
              => sockets' = sockets /\ requests'[i].status # 201]_vars

----------------------------------------------------------------------------
(* routes/telemetry.js: POST /alerts/:alertId/archive.  Here the rows of    *)
(* alerts carry their id.                                                   *)

\* req.params.alertId: an alert of u1, an alert of u2, or no alert
AlertIds == {1, 2, 3}

StoredAlert(id, deviceId, userId) ==
    [id |-> id, device_id |-> deviceId, user_id |-> userId,
     alert_type |-> "WATER_DETECTED", sensor |-> Some("ZONE1"), value |-> Null,
     is_active |-> TRUE, cleared_at |-> Null, received_at |-> id,
     origin |-> "handleAlert"]

ArchiveRequest(userId, alertId) ==
    [route |-> "archive", userId |-> userId, alertId |-> alertId,
     pc |-> "fetch", status |-> 0, message |-> "", alert |-> Null,
     outcome |-> ""]

\* POST /alerts/:alertId/archive: the handler suspends at the select of the
\* alert
archiveAlert(userId, alertId) ==
    /\ Len(requests) < RequestLimit
    /\ Cardinality(InProgress) < ConcurrentRequests
    /\ requests' = Append(requests, ArchiveRequest(userId, alertId))
    /\ UNCHANGED <<devices, alerts, sensor_readings, tasks, sent, faults, env,
                   wsVars, mqVars, commandTasks, notifications, push_tokens,
                   sockets, archived_alerts>>

\* .eq('id', alertId).eq('user_id', req.user.id)
Fetched(alertId, userId) ==
    {k \in DOMAIN alerts : alerts[k].id = alertId /\ alerts[k].user_id = userId}

\* the select settles: .single() is the error PGRST116 when no row matches
archiveFetch(i, outcome) ==
    /\ i \in DOMAIN requests
    /\ requests[i].route = "archive" /\ requests[i].pc = "fetch"
    /\ Charge(outcome)
    /\ LET r == [requests[i] EXCEPT !.outcome = outcome]
           rows == Fetched(r.alertId, r.userId)
       IN requests' = [requests EXCEPT ![i] =
              IF outcome # "ok" THEN Reply(r, 500, "Internal server error")
              ELSE IF rows = {}
                   THEN Reply(r, 404, "Alert not found or not owned by you")
              ELSE [r EXCEPT !.pc = "copy",
                             !.alert = Some(alerts[CHOOSE k \in rows : TRUE])]]
    /\ UNCHANGED <<devices, alerts, sensor_readings, tasks, sent, env,
                   wsVars, mqVars, commandTasks, notifications, push_tokens,
                   sockets, archived_alerts>>

Archived(alertId) == {k \in DOMAIN archived_alerts : archived_alerts[k].id = alertId}

\* the row inserted into archived_alerts by request i
ArchivedCopy(alert, i) ==
    [id |-> alert.id, device_id |-> alert.device_id, user_id |-> alert.user_id,
     alert_type |-> alert.alert_type, sensor |-> alert.sensor,
     value |-> alert.value, is_active |-> alert.is_active,
     cleared_at |-> alert.cleared_at, received_at |-> alert.received_at,
     archived_at |-> i]

\* the insert into archived_alerts settles; the table has one row per id
archiveCopy(i, outcome) ==
    /\ i \in DOMAIN requests
    /\ requests[i].route = "archive" /\ requests[i].pc = "copy"
    /\ Charge(outcome)
    /\ LET r == [requests[i] EXCEPT !.outcome = outcome]
       IN IF outcome = "ok" /\ Archived(r.alertId) = {}
          THEN /\ archived_alerts' = Append(archived_alerts, ArchivedCopy(r.alert[1], i))
               /\ requests' = [requests EXCEPT ![i] = [r EXCEPT !.pc = "delete"]]
          ELSE /\ archived_alerts' = archived_alerts
               /\ requests' = [requests EXCEPT ![i] =
                     Reply(r, 500, "Internal server error")]
    /\ UNCHANGED <<devices, alerts, sensor_readings, tasks, sent, env,
                   wsVars, mqVars, commandTasks, notifications, push_tokens,
                   sockets>>

\* the delete from alerts settles; on an error the handler suspends at the
\* delete of the archived copy
archiveDelete(i, outcome) ==
    /\ i \in DOMAIN requests
    /\ requests[i].route = "archive" /\ requests[i].pc = "delete"
    /\ Charge(outcome)
    /\ LET r == [requests[i] EXCEPT !.outcome = outcome]
           kept(row) == ~(row.id = r.alertId /\ row.user_id = r.userId)
       IN /\ alerts' = IF outcome = "ok" THEN SelectSeq(alerts, kept) ELSE alerts
          /\ requests' = [requests EXCEPT ![i] =
                CASE outcome = "ok"    -> Reply(r, 200, "Alert archived successfully")
                  [] outcome = "error" -> [r EXCEPT !.pc = "cleanup"]
                  [] OTHER             -> Reply(r, 500, "Internal server error")]
    /\ UNCHANGED <<devices, sensor_readings, tasks, sent, env,
                   wsVars, mqVars, commandTasks, notifications, push_tokens,
                   sockets, archived_alerts>>

\* the delete of the archived copy settles, its result is not looked at;
\* deleteError is thrown
archiveCleanup(i, outcome) ==
    /\ i \in DOMAIN requests
    /\ requests[i].route = "archive" /\ requests[i].pc = "cleanup"
    /\ outcome \in {"ok", "error", "throw"}
    /\ LET r == [requests[i] EXCEPT !.outcome = outcome]
           kept(row) == row.id # r.alertId
       IN /\ archived_alerts' =
                IF outcome = "ok" THEN SelectSeq(archived_alerts, kept)
                ELSE archived_alerts
          /\ requests' = [requests EXCEPT ![i] =
                Reply(r, 500, "Internal server error")]
    /\ UNCHANGED <<devices, alerts, sensor_readings, tasks, sent, faults, env,
                   wsVars, mqVars, commandTasks, notifications, push_tokens,
                   sockets>>

\* u1 and u2 have one alert each
InitArchiving ==
    /\ devices = InitialDevices
    /\ alerts = <<StoredAlert(1, "d1", "u1"), StoredAlert(2, "d2", "u2")>>
    /\ sensor_readings = << >>
    /\ tasks = << >> /\ sent = << >> /\ faults = 0
    /\ InitWebSocket
    /\ InitBroker
    /\ InitApi
    /\ env = [run |-> "archiving"]

NextArchiving ==
    \/ \E u \in Requesters, a \in AlertIds : archiveAlert(u, a)
    \/ \E i \in DOMAIN requests, o \in Outcomes : archiveFetch(i, o)
    \/ \E i \in DOMAIN requests, o \in Outcomes : archiveCopy(i, o)
    \/ \E i \in DOMAIN requests, o \in Outcomes : archiveDelete(i, o)
    \/ \E i \in DOMAIN requests, o \in {"ok", "error", "throw"} : archiveCleanup(i, o)

ArchiveSpec == InitArchiving /\ [][NextArchiving]_vars

\* no request is in progress
Quiescent == InProgress = {}

InAlerts(a) == \E k \in DOMAIN alerts : alerts[k].id = a

\* the user the alert a was raised for
OwnerOfAlert(a) == IF a = 1 THEN "u1" ELSE "u2"

\* C29: when no request is in progress, each of the two alerts is in exactly
\* one of the two tables; it is in the archive and not in alerts if a request
\* to archive it was answered with success, and it is in the archive only if
\* a request of its owner was.
C29_ArchivingMovesTheAlert ==
    Quiescent =>
        /\ \A a \in {1, 2} : InAlerts(a) # (Archived(a) # {})
        /\ \A i \in DOMAIN requests :
              requests[i].status = 200 =>
                  Archived(requests[i].alertId) # {} /\ ~InAlerts(requests[i].alertId)
        /\ \A a \in {1, 2} :
              Archived(a) # {} =>
                  \E i \in DOMAIN requests :
                      /\ requests[i].alertId = a
                      /\ requests[i].userId = OwnerOfAlert(a)
                      /\ requests[i].status = 200

----------------------------------------------------------------------------
\* the update of the alert-cleared handler of event i settles
ClearStep(i) ==
    /\ tasks[i].pc = "clear_update"
    /\ tasks'[i].pc # "clear_update"

\* C30: the alert-cleared handler inserts and deletes no row of alerts, and a
\* row it changes was active, is of the message's device and owner, has the
\* message's alert type if the message names one and the message's sensor
\* label if it names one, and is changed in is_active and cleared_at only;
\* every other row, the cleared_at of an inactive row included, is as before.
C30_ClearTouchesOnlyMatchingActiveRows ==
    [][\A i \in DOMAIN tasks :
          ClearStep(i) =>
              /\ DOMAIN alerts' = DOMAIN alerts
              /\ \A k \in DOMAIN alerts :
                    alerts'[k] # alerts[k] =>
                        /\ alerts[k].is_active
                        /\ alerts[k].device_id = tasks[i].deviceId
                        /\ alerts[k].user_id = tasks[i].userId
                        /\ ClearedType(tasks[i].payload) # Null =>
                              Some(alerts[k].alert_type) = ClearedType(tasks[i].payload)
                        /\ Has(tasks[i].payload, "sensor") =>
                              alerts[k].sensor = Some(tasks[i].payload.sensor)
                        /\ alerts'[k] = [alerts[k] EXCEPT
                                            !.is_active = FALSE,
                                            !.cleared_at = Some(tasks[i].receivedAt)]]_vars

\* an alert was cleared by one message and a later clear message of the same
\* device, which names no other type or sensor, has been handled: the row
\* still has the first cleared_at
C30_Witness ==
    \E k \in DOMAIN alerts, j \in DOMAIN tasks :
        /\ ~alerts[k].is_active
        /\ alerts[k].cleared_at # Null
        /\ alerts[k].cleared_at[1] < j
        /\ tasks[j].messageType = "alert_cleared"
        /\ tasks[j].deviceId = alerts[k].device_id
        /\ tasks[j].pc = "done" /\ ~tasks[j].failed
        /\ ClearedType(tasks[j].payload) = Null
        /\ ~Has(tasks[j].payload, "sensor")

----------------------------------------------------------------------------
(* Connections that close or are probed while they authenticate, and the    *)
(* registry after close().                                                  *)

\* C31: a connection that has closed and whose _handleConnection has ended is
\* in no user's set of the registry.
C31_ClosedConnectionsLeaveTheRegistry ==
    \A c \in ConnIds :
        conns[c].readyState = "closed" /\ conns[c].pc = "done"
            => c \notin Registered

\* connection c is between its connection event and the end of its
\* authentication
Authenticating(c) == conns[c].pc \in {"getUser", "lookup"}

\* C36: a heartbeat tick leaves a connection that is still authenticating as
\* it is: it neither marks it not-alive nor terminates it.
C36_HeartbeatSkipsAuthenticating ==
    [][\A c \in ConnIds :
          TickStep /\ Authenticating(c) => conns'[c] = conns[c]]_vars

\* C40: once close() has run the registry is empty.
C40_RegistryStaysEmptyAfterClose ==
    wss.closed => Registered = {} /\ DOMAIN clients = {}

\* C38: a device_command event carries the internal user id under which the
\* connection of its frame was authenticated and registered; a frame on a
\* connection whose authentication has not ended, or did not succeed, raises
\* no event and is not answered.
C38_CommandsCarryTheAuthenticatedUser ==
    [][FrameStep =>
          LET c == wss'.received[1]
              registered == /\ conns[c].pc = "done"
                            /\ Authenticated(c, conns[c].userId)
          IN /\ commands' # commands =>
                   /\ Len(commands') = Len(commands) + 1
                   /\ commands'[Len(commands')].userId = conns[c].userId
                   /\ registered
             /\ ~registered =>
                   /\ commands' = commands
                   /\ conns'[c].out = conns[c].out]_vars

\* a command frame arrived while the users lookup of its connection was in
\* flight and raised no event; the connection was registered afterwards
C38_Witness ==
    /\ Len(wss.received) = 2
    /\ CarriesCommand(wss.received[2])
    /\ commands = << >>
    /\ conns[wss.received[1]].pc = "done"
    /\ wss.received[1] \in Registered
    /\ conns[wss.received[1]].out = <<[type |-> "connected", userId |-> "u1"]>>

\* C37: the heartbeat terminates a registered open connection only if the
\* probe of the tick before is still unanswered; a connection whose peer has
\* answered it has isAlive true at the tick.
C37_AnsweringConnectionSurvives ==
    [][\A c \in ConnIds :
          (/\ TickStep
           /\ conns[c].listening /\ conns[c].readyState = "open"
           /\ ~conns[c].probe)
              => /\ conns[c].isAlive = Some(TRUE)
                 /\ ~conns'[c].evicted
                 /\ conns'[c].readyState = "open"]_vars

\* a registered connection has answered the probes of both ticks and is open
C37_Witness ==
    \E c \in ConnIds :
        /\ wss.ticks = 2
        /\ conns[c].pongs = 2
        /\ conns[c].readyState = "open"
        /\ conns[c].isAlive = Some(TRUE)
        /\ ~conns[c].evicted

----------------------------------------------------------------------------
(* services/push-notifications.js: sendPushNotificationToUser.  The push    *)
(* gateway answers a batch with one ticket per message, or the call fails.  *)

\* dispatches per behaviour
MaxDispatches == 2
\* messages per batch of expo.chunkPushNotifications (the gateway allows 100)
ChunkSize == 1

\* the order in which a select returns the rows of push_tokens
TokenOrder == <<"T1", "T2", "bad">>

\* u1 has registered two tokens; u2's only row holds a string that is not an
\* Expo token
DispatchTokens ==
    [t \in {"T1", "T2", "bad"} |->
        IF t = "bad" THEN Some([id |-> 203, user_id |-> "u2", device_id |-> ""])
        ELSE Some([id |-> IF t = "T1" THEN 201 ELSE 202, user_id |-> "u1",
                   device_id |-> "tablet"])]

\* tokens.map(t => t.expo_push_token).filter(token => Expo.isExpoPushToken(token))
validTokens(userId) ==
    LET valid(t) == /\ push_tokens[t] # Null
                    /\ push_tokens[t][1].user_id = userId
                    /\ isExpoPushToken(t)
    IN SelectSeq(TokenOrder, valid)

\* expo.chunkPushNotifications(messages): batches of at most ChunkSize
RECURSIVE chunkPushNotifications(_)
chunkPushNotifications(messages) ==
    IF Len(messages) <= ChunkSize
    THEN IF messages = << >> THEN << >> ELSE <<messages>>
    ELSE <<SubSeq(messages, 1, ChunkSize)>>
            \o chunkPushNotifications(SubSeq(messages, ChunkSize + 1, Len(messages)))

\* the tickets of the gateway: ok, an error that names the token of the
\* message (details.expoPushToken), an error without details
TicketKinds == {"ok", "invalid", "error"}

Ticket(kind, to) ==
    [status |-> IF kind = "ok" THEN "ok" ELSE "error", to |-> to,
     expoPushToken |-> IF kind = "invalid" THEN to ELSE ""]

\* sendPushNotificationToUser(userId, alert) up to the select of getUserPushTokens
sendPushNotificationToUser(userId) ==
    /\ Len(notifications) < MaxDispatches
    /\ notifications' = Append(notifications,
           [userId |-> userId, alert |-> 0, pc |-> "tokens", chunks |-> << >>,
            next |-> 1, gateway |-> << >>, tickets |-> << >>, pruned |-> 0,
            removed |-> {}, result |-> ""])
    /\ UNCHANGED <<devices, alerts, sensor_readings, tasks, sent, faults, env,
                   wsVars, mqVars, commandTasks, routeVars>>

\* getUserPushTokens settles: an error or a rejection gives no token
getUserPushTokens(i, outcome) ==
    /\ i \in DOMAIN notifications
    /\ notifications[i].pc = "tokens"
    /\ Charge(outcome)
    /\ LET n == notifications[i]
           pushTokens == IF outcome = "ok" THEN validTokens(n.userId) ELSE << >>
       IN notifications' = [notifications EXCEPT ![i] =
              IF Len(pushTokens) = 0
              THEN [n EXCEPT !.pc = "done", !.result = "no_tokens"]
              ELSE [n EXCEPT !.pc = "send",
                             !.chunks = chunkPushNotifications(pushTokens)]]
    /\ UNCHANGED <<devices, alerts, sensor_readings, tasks, sent, env,
                   wsVars, mqVars, commandTasks, routeVars>>

\* the error tickets that lead to a delete: error.details.expoPushToken
ErrorsWithToken(tickets) ==
    SelectSeq(tickets, LAMBDA ticket :
        ticket.status = "error" /\ ticket.expoPushToken # "")

AfterFailedChunkStops(n) == [n EXCEPT !.next = Len(n.chunks) + 1]

\* catch of the loop over the chunks: the error is logged, the loop goes on
AfterFailedChunk(n) == [n EXCEPT !.next = @ + 1]

\* after a chunk: the next chunk, or the deletes of the invalid tokens, or the
\* result
AfterChunk(n) ==
    IF n.next <= Len(n.chunks) THEN n
    ELSE IF Len(ErrorsWithToken(n.tickets)) > 0 THEN [n EXCEPT !.pc = "prune"]
    ELSE [n EXCEPT !.pc = "done", !.result = "sent"]

\* expo.sendPushNotificationsAsync(chunk) settles: it throws, or returns the
\* tickets of the messages of the chunk
sendPushNotificationsAsync(i, failed, kinds) ==
    /\ i \in DOMAIN notifications
    /\ notifications[i].pc = "send"
    /\ LET n == [notifications[i] EXCEPT !.gateway = Append(@, notifications[i].next)]
           chunk == n.chunks[n.next]
           ticketChunk == [k \in 1..Len(chunk) |-> Ticket(kinds[k], chunk[k])]
       IN notifications' = [notifications EXCEPT ![i] =
              IF failed THEN AfterChunk(AfterFailedChunk(n))
              ELSE AfterChunk([n EXCEPT !.next = @ + 1,
                                        !.tickets = @ \o ticketChunk])]
    /\ UNCHANGED <<devices, alerts, sensor_readings, tasks, sent, faults, env,
                   wsVars, mqVars, commandTasks, routeVars>>

\* the delete of the next invalid token settles; its result is not looked at,
\* a rejection ends the dispatch in the outer catch
removeInvalidToken(i, outcome) ==
    /\ i \in DOMAIN notifications
    /\ notifications[i].pc = "prune"
    /\ Charge(outcome)
    /\ LET n == notifications[i]
           errors == ErrorsWithToken(n.tickets)
           invalidToken == errors[n.pruned + 1].expoPushToken
           last == n.pruned + 1 = Len(errors)
       IN /\ push_tokens' = IF outcome = "ok"
                            THEN [push_tokens EXCEPT ![invalidToken] = Null]
                            ELSE push_tokens
          /\ notifications' = [notifications EXCEPT ![i] =
                IF outcome = "throw" THEN [n EXCEPT !.pc = "done", !.result = "error"]
                ELSE [n EXCEPT !.pruned = @ + 1,
                               !.removed = IF outcome = "ok"
                                           THEN @ \cup {invalidToken} ELSE @,
                               !.pc = IF last THEN "done" ELSE "prune",
                               !.result = IF last THEN "sent" ELSE ""]]
    /\ UNCHANGED <<devices, alerts, sensor_readings, tasks, sent, env,
                   wsVars, mqVars, commandTasks, requests, sockets, archived_alerts>>

InitDispatch ==
    /\ devices = InitialDevices
    /\ alerts = << >> /\ sensor_readings = << >>
    /\ tasks = << >> /\ sent = << >> /\ faults = 0
    /\ InitWebSocket
    /\ InitBroker
    /\ commandTasks = << >> /\ notifications = << >>
    /\ requests = << >> /\ sockets = << >> /\ archived_alerts = << >>
    /\ push_tokens = DispatchTokens
    /\ env = [run |-> "dispatch"]

NextDispatch ==
    \/ \E u \in Requesters : sendPushNotificationToUser(u)
    \/ \E i \in DOMAIN notifications, o \in Outcomes : getUserPushTokens(i, o)
    \/ \E i \in DOMAIN notifications, failed \in BOOLEAN,
          kinds \in [1..ChunkSize -> TicketKinds] :
          sendPushNotificationsAsync(i, failed, kinds)
    \/ \E i \in DOMAIN notifications, o \in Outcomes : removeInvalidToken(i, o)

DispatchSpec == InitDispatch /\ [][NextDispatch]_vars

\* the batches of dispatch n, by number
Batches(n) == [k \in 1..Len(n.chunks) |-> k]

\* C35: in a dispatch every batch is handed to the gateway once, in order,
\* whether or not an earlier batch failed to send; a row of push_tokens is
\* deleted only for a token that an error ticket of the dispatch names; a
\* dispatch that finds no valid token calls the gateway not at all and gives
\* no_tokens.
C35_DispatchSurvivesFailedBatches ==
    /\ [](\A i \in DOMAIN notifications :
            LET n == notifications[i]
            IN /\ n.pc \in {"prune", "done"} /\ n.result # "no_tokens"
                     => n.gateway = Batches(n)
               /\ n.pc = "send" => n.gateway = [k \in 1..(n.next - 1) |-> k]
               /\ n.result = "no_tokens" => n.gateway = << >> /\ n.removed = {}
               /\ \A t \in n.removed :
                     \E k \in DOMAIN n.tickets :
                         /\ n.tickets[k].status = "error"
                         /\ n.tickets[k].to = t
                         /\ n.tickets[k].expoPushToken = t)
    /\ [][\A t \in DOMAIN push_tokens :
            push_tokens'[t] # push_tokens[t] =>
                /\ push_tokens'[t] = Null
                /\ \E i \in DOMAIN notifications :
                      /\ notifications[i].pc = "prune"
                      /\ t \in notifications'[i].removed
                            \ notifications[i].removed]_vars

\* the first batch of u1's dispatch failed to send, the second was sent and
\* its ticket named T2 invalid: T2 is deleted, T1 is not
C35_Witness ==
    \E i \in DOMAIN notifications :
        LET n == notifications[i]
        IN /\ n.pc = "done" /\ n.result = "sent"
           /\ n.gateway = <<1, 2>>
           /\ Len(n.tickets) = 1 /\ n.tickets[1].to = "T2"
           /\ n.removed = {"T2"}
           /\ push_tokens["T1"] # Null /\ push_tokens["T2"] = Null


----------------------------------------------------------------------------
(* A command ends in one publish or in one typed error frame. *)

\* the codes of the error frames the listener sends
CommandErrorCodes ==
    {"DEVICE_NOT_FOUND", "UNAUTHORIZED", "DEVICE_INACTIVE", "MQTT_ERROR",
     "INTERNAL_ERROR"}

\* the lookup of task i settled with a row that passes the three checks
PassesChecks(i) ==
    /\ commandTasks'[i].outcome = "ok"
    /\ FailedCheck(devices[commandTasks[i].deviceId], commandTasks[i].userId) = ""

\* C33: a command that passes the existence, ownership and active checks while
\* the broker client is not connected publishes nothing and writes exactly one
\* error frame with code MQTT_ERROR to the user's connections; every
\* device_command event ends in exactly one of one publish and no error frame,
\* or no publish and one typed error frame on each open registered connection
\* of the user.
C33_PublishOrOneErrorFrame ==
    [][\A i \in DOMAIN commandTasks :
          CommandSettles(i) =>
            LET userId == commandTasks[i].userId
            IN /\ \/ /\ Len(mqtt'.published) = Len(mqtt.published) + 1
                     /\ SubSeq(mqtt'.published, 1, Len(mqtt.published)) = mqtt.published
                     /\ conns' = conns
                  \/ /\ mqtt'.published = mqtt.published
                     /\ \E code \in CommandErrorCodes :
                            OneErrorFrame(userId, code)
               /\ PassesChecks(i) /\ ~mqtt.isConnected =>
                     /\ mqtt'.published = mqtt.published
                     /\ OneErrorFrame(userId, "MQTT_ERROR")]_vars

\* a command of u1 for the own active device found the broker client not
\* connected: nothing is published and the connection holds the MQTT_ERROR frame
C33_Witness ==
    /\ \E i \in DOMAIN commandTasks :
          /\ commandTasks[i].pc = "done"
          /\ commandTasks[i].outcome = "ok"
          /\ commandTasks[i].code = "MQTT_ERROR"
          /\ \E c \in userConnectionsOf(clients, commandTasks[i].userId) :
                /\ conns[c].readyState = "open"
                /\ \E k \in DOMAIN conns[c].out :
                      conns[c].out[k] = [type |-> "error", code |-> "MQTT_ERROR"]
    /\ mqtt.published = << >>

----------------------------------------------------------------------------
(* The topic of a command under a configured prefix. *)

\* MQTT_TOPIC_PREFIX is set or not, clients connect and send commands
InitPrefixedCommands ==
    /\ InitService
    /\ env = [run |-> "commands"]

PrefixedCommandSpec == InitPrefixedCommands /\ [][NextCommands]_vars

\* C34: every command is published to <prefix>/<deviceId>/commands, <prefix>
\* the configured topic prefix of the telemetry subscription <prefix>/+/telemetry,
\* with a JSON body holding exactly the command and a timestamp.
C34_CommandsUseTheConfiguredPrefix ==
    \A k \in DOMAIN mqtt.published :
        \E d \in DeviceIds :
            /\ mqtt.published[k].topic = mqtt.topicPrefix \o <<"/", d, "/", "c">>
            /\ \E m \in CommandMessages :
                  mqtt.published[k].payload = JSONstringify(m)


----------------------------------------------------------------------------
(* The water-alert check follows a stored reading. *)

\* the insert of the SensorReading row of task i settles in the step
ReadingSettles(i) ==
    tasks[i].pc = "reading_insert" /\ tasks'[i].pc # "reading_insert"

\* the Alert rows the sensor-reading handler inserted for task i
WaterAlertsOf(i) ==
    {k \in DOMAIN alerts :
        alerts[k].origin = "handleSensorReading" /\ alerts[k].received_at = i}

\* the sensor-reading handler of task i has returned and its insert failed
ReadingInsertFailed(i) ==
    /\ tasks[i].messageType = "sensor_reading"
    /\ tasks[i].userId # ""
    /\ tasks[i].pc \in {"forward", "done"}
    /\ ~ReadingStored(i)

\* C39: the water-alert check of the sensor-reading handler runs only after the
\* SensorReading row was inserted: a task is at the check or the insert of an
\* Alert row, or has inserted one, only with its reading stored; when the
\* insert of the reading fails the handler returns in that step without
\* touching the alerts, no WATER_DETECTED row is ever stored for the message,
\* and the router still forwards the message to the owner.
C39_WaterCheckFollowsStoredReading ==
    /\ [](\A i \in DOMAIN tasks :
            /\ tasks[i].pc \in {"zone_check", "zone_insert"} => ReadingStored(i)
            /\ WaterAlertsOf(i) # {} => ReadingStored(i)
            /\ ReadingInsertFailed(i) /\ tasks[i].pc = "done" =>
                  \E k \in DOMAIN sent :
                      /\ sent[k].userId = tasks[i].userId
                      /\ sent[k].data = Envelope(tasks[i]))
    /\ [][\A i \in DOMAIN tasks :
            ReadingSettles(i) /\ sensor_readings' = sensor_readings =>
                /\ tasks'[i].pc = "forward"
                /\ alerts' = alerts]_vars

\* a reading with water above the threshold in zone 1 whose insert stored no
\* row: no WATER_DETECTED alert, and the message was forwarded
C39_Witness ==
    \E i \in DOMAIN tasks :
        /\ ReadingInsertFailed(i) /\ tasks[i].pc = "done"
        /\ ~tasks[i].escaped
        /\ zone1Detected(tasks[i].payload)
        /\ WaterAlertsOf(i) = {}
        /\ \E k \in DOMAIN sent : sent[k].data = Envelope(tasks[i])


----------------------------------------------------------------------------
(* A connection that is down or whose write fails during a send. *)

\* a call of sendErrorToUser(userId, code, message), the writes to the
\* connections in failing fail
sendErrorToUserCall(userId, code, failing) ==
    /\ Len(calls) < MaxSends
    /\ LET userConnections == userConnectionsOf(clients, userId)
       IN /\ calls' = Append(calls, [kind |-> "error", userId |-> userId,
                                     data |-> code,
                                     returned |-> userConnections # {},
                                     failed |-> failing])
          /\ conns' = forEachSend(conns, userConnections, failing,
                                  [type |-> "error", code |-> code])
    /\ UNCHANGED <<devices, alerts, sensor_readings, tasks, sent, faults, env,
                   clients, commands, wss, mqVars, apiVars>>

\* clients of u1 and u3 connect and go away while the three send functions are
\* called and writes fail
InitSending ==
    /\ InitTables
    /\ env = [run |-> "sending"]

NextSending ==
    \/ \E c \in ConnIds, token \in TokenPool : handleConnection(c, token)
    \/ \E c \in ConnIds, o \in Outcomes : handleConnectionGetUser(c, o)
    \/ \E c \in ConnIds, o \in Outcomes : handleConnectionLookup(c, o)
    \/ \E c \in ConnIds : socketCloses(c)
    \/ \E u \in UserIds, failing \in SUBSET ConnIds : sendToUser(u, failing)
    \/ \E failing \in SUBSET ConnIds : broadcast(failing)
    \/ \E u \in UserIds, failing \in SUBSET ConnIds :
          sendErrorToUserCall(u, "MQTT_ERROR", failing)

SendSpec == InitSending /\ [][NextSending]_vars

\* the connections a call addresses
TargetsOf(call) ==
    IF call.kind = "broadcast" THEN Registered
    ELSE userConnectionsOf(clients, call.userId)

\* the frame a call writes
FrameOf(call) ==
    CASE call.kind = "telemetry" -> [type |-> "telemetry", data |-> call.data]
      [] call.kind = "broadcast" -> [type |-> "broadcast", data |-> call.data]
      [] call.kind = "error"     -> [type |-> "error", code |-> call.data]

\* C32: during sendToUser, broadcast and sendErrorToUser a connection of the
\* target set that is closed or whose write fails does not affect the others:
\* every other open connection of the target set receives the frame, once,
\* nothing is written to a connection outside the target set, and the call
\* returns to its caller (true or false by whether the user has registered
\* connections).
C32_FailedWriteLeavesTheOthers ==
    [][SendStep =>
         LET call == calls'[Len(calls')]
         IN /\ \A c \in ConnIds :
                  IF /\ c \in TargetsOf(call) /\ c \notin call.failed
                     /\ conns[c].readyState = "open"
                  THEN conns'[c] = [conns[c] EXCEPT !.out = Append(@, FrameOf(call))]
                  ELSE conns'[c].out = conns[c].out
            /\ call.kind # "broadcast" =>
                  (call.returned <=> TargetsOf(call) # {})]_vars

\* a call addressed two open connections, the write to the first failed and
\* the second holds the frame
C32_Witness ==
    /\ Len(calls) = 1
    /\ \E b, c \in ConnIds :
          /\ b < c
          /\ b \in calls[1].failed /\ c \notin calls[1].failed
          /\ conns[b].readyState = "closing" /\ Len(conns[b].out) = 1
          /\ conns[c].readyState = "open" /\ Len(conns[c].out) = 2
          /\ conns[c].out[2] = FrameOf(calls[1])

====
